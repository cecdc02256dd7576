--------------------------- MODULE VpuPoolProofs ---------------------------
(***************************************************************************)
(* Safety of the driver's page pool for any number of clients, blocks and  *)
(* pages, with ioctls that may overlap, and that the driver implements the *)
(* promise of module PagePool.                                             *)
(***************************************************************************)
EXTENDS VpuPool, FiniteSetTheorems, SequenceTheorems, TLAPS

\* The last close is recognised: open_count counts the opens.
CountExact == IsFiniteSet(open) /\ open_count = Cardinality(open)

\* A client that does not have the device open is in no ioctl and has no buffer.
ClosedIdle == \A c \in Clients : c \notin open => pc[c] = "user" /\ held[c] = {}

\* A buffer about to be recorded is not one of those handed out.
Fresh == \A c \in Clients : pc[c] = "record" => mem[c] \notin held[c]

\* What holds whatever a client frees.
Base == TypeOK /\ CountExact /\ ClosedIdle

\* The inductive invariant.
PInv == Base /\ LiveMarked /\ LiveDisjoint /\ Fresh

-----------------------------------------------------------------------------
\* A descriptor has at least one page.
LEMMA PagesNonEmpty == \A d \in Desc : Pages(d) # {} /\ Pages(d) \subseteq Page
<1> SUFFICES ASSUME NEW d \in Desc PROVE Pages(d) # {} /\ Pages(d) \subseteq Page
  OBVIOUS
<1>1. d.addr \in Page /\ d.size \in 1..BlockPages
  BY DEF Desc
<1>2. d.addr[2] \in Int
  BY <1>1, PoolConstants DEF Page
<1>3. d.addr \in Area(d.addr, d.size)
  BY <1>1, <1>2, PoolConstants DEF Area
<1> QED
  BY <1>3 DEF Pages, Area

\* What vpu_pool_alloc returns was free.
LEMMA FirstFitFree ==
  ASSUME NEW n, NEW a \in Page, FirstFit(n, a)
  PROVE  /\ [addr |-> a, size |-> n] \in Desc
         /\ Pages([addr |-> a, size |-> n]) = Area(a, n)
         /\ Area(a, n) \cap used = {}
         /\ Area(a, n) \subseteq Page
<1>1. n \in 1..BlockPages /\ Area(a, n) \cap used = {}
  BY DEF FirstFit, Fit
<1> QED
  BY <1>1 DEF Desc, Pages, Area

\* Sets of live buffers that only shrink, over pages that stay marked, keep the
\* invariants about them.
LEMMA Shrinks ==
  ASSUME LiveMarked, LiveDisjoint,
         \A c \in Clients : Live(c)' \subseteq Live(c),
         used \subseteq used'
  PROVE  LiveMarked' /\ LiveDisjoint'
<1>1. LiveMarked'
  BY DEF LiveMarked
<1>2. LiveDisjoint'
  BY DEF LiveDisjoint
<1> QED
  BY <1>1, <1>2

\* The same when nothing is live afterwards.
LEMMA Empties ==
  ASSUME \A c \in Clients : Live(c)' = {}
  PROVE  LiveMarked' /\ LiveDisjoint'
  BY DEF LiveMarked, LiveDisjoint

\* The pool starts empty.
LEMMA PInit == Init => PInv
<1> SUFFICES ASSUME Init PROVE PInv
  OBVIOUS
<1>1. TypeOK
  <2>1. head \in [Page -> Seq(1..BlockPages)]
    BY DEF Init
  <2>2. open_count \in 0..OpenMod-1
    <3>1. Cardinality(Clients) \in Nat
      BY OpenCountFits, FS_CardinalityType
    <3> QED
      BY <3>1, OpenCountFits DEF Init
  <2> QED
    BY <2>1, <2>2, PoolConstants DEF Init, TypeOK, PC
<1>2. \A c \in Clients : Live(c) = {}
  BY DEF Init, Live
<1>3. LiveMarked /\ LiveDisjoint
  BY <1>2 DEF LiveMarked, LiveDisjoint
<1>4. CountExact
  BY FS_EmptySet DEF Init, CountExact
<1>5. ClosedIdle /\ Fresh
  BY DEF Init, ClosedIdle, Fresh
<1> QED
  BY <1>1, <1>3, <1>4, <1>5 DEF PInv, Base

-----------------------------------------------------------------------------
\* One lemma per action: it preserves Base, for any descriptor a client frees.

\* Base, step by step: vpu_open,
LEMMA OpenBase ==
  ASSUME Base, UNCHANGED overlap, NEW c \in Clients, vpu_open(c) PROVE Base'
<1> USE DEF Base
<1>1. /\ IsFiniteSet(open') /\ Cardinality(open') = open_count + 1 /\ open' \subseteq Clients
  BY FS_AddElement DEF vpu_open, CountExact, TypeOK
<1>2. Cardinality(open') \in Nat /\ Cardinality(open') < OpenMod
  <2>1. Cardinality(open') <= Cardinality(Clients) /\ Cardinality(Clients) \in Nat
    BY <1>1, OpenCountFits, FS_Subset, FS_CardinalityType
  <2> QED
    BY <1>1, <2>1, OpenCountFits, FS_CardinalityType
<1>3. open_count' = Cardinality(open')
  <2>1. open_count' = Cardinality(open') % OpenMod
    BY <1>1 DEF vpu_open
  <2>2. \A k \in Nat : k < OpenMod => k % OpenMod = k
    BY OpenCountFits
  <2> QED
    BY <1>2, <2>1, <2>2
<1>4. TypeOK'
  <2>1. open_count' \in 0..OpenMod-1
    BY <1>2, <1>3, OpenCountFits
  <2> QED
    BY <1>1, <2>1 DEF vpu_open, TypeOK
<1> QED
  BY <1>1, <1>3, <1>4 DEF vpu_open, CountExact, ClosedIdle

\* vpu_release, which on the last close takes the buffers of all,
LEMMA ReleaseBase ==
  ASSUME Base, UNCHANGED overlap, NEW c \in Clients, vpu_release(c)
  PROVE  Base' /\ (open_count = 1 => open' = {})
<1> USE DEF Base
<1>0. /\ c \in open /\ pc[c] = "user" /\ open' = open \ {c} /\ held' = [held EXCEPT ![c] = {}]
      /\ nblocks' = nblocks /\ bitwork_mem' = bitwork_mem /\ pc' = pc /\ mem' = mem /\ lost' = lost
  BY DEF vpu_release
<1>1. /\ IsFiniteSet(open') /\ Cardinality(open') = open_count - 1 /\ Cardinality(open') \in Nat
      /\ open_count \in Nat
  BY <1>0, FS_RemoveElement, FS_CardinalityType DEF CountExact
<1>2. open_count' = Cardinality(open') /\ open_count > 0
  BY <1>1 DEF vpu_release
<1>3. used' \subseteq used /\ head' \in [Page -> Seq(1..BlockPages)]
  <2>1. CASE open_count = 1
    <3>1. head' = [a \in Page |-> <<>>] /\ used' = used \ Recorded
      BY <2>1 DEF vpu_release, vpu_free_buffers
    <3>2. head' \in [Page -> Seq(1..BlockPages)]
      BY <3>1
    <3> QED
      BY <3>1, <3>2
  <2>2. CASE open_count # 1
    <3>1. used' = used /\ head' = head
      BY <2>2 DEF vpu_release
    <3> QED
      BY <3>1 DEF TypeOK
  <2> QED
    BY <2>1, <2>2
<1>4. TypeOK'
  <2>1. open_count' \in 0..OpenMod-1
    BY <1>1, <1>2, OpenCountFits DEF TypeOK
  <2>2. used' \subseteq Page /\ open' \subseteq Clients
    BY <1>0, <1>3 DEF TypeOK
  <2> QED
    BY <1>0, <1>3, <2>1, <2>2 DEF TypeOK
<1>5. CountExact' /\ ClosedIdle'
  BY <1>0, <1>1, <1>2 DEF CountExact, ClosedIdle, TypeOK
<1>6. open_count = 1 => open' = {}
  BY <1>1, FS_EmptySet
<1> QED
  BY <1>4, <1>5, <1>6

\* the allocation of PHYMEM_ALLOC,
LEMMA AllocBase ==
  ASSUME Base, UNCHANGED overlap, NEW c \in Clients, NEW n, PhymemAlloc(c, n) PROVE Base'
<1> USE DEF Base
<1>1. PICK a \in Page : /\ FirstFit(n, a) /\ used' = used \cup Area(a, n)
                        /\ mem' = [mem EXCEPT ![c] = [addr |-> a, size |-> n]]
  BY DEF PhymemAlloc
<1>2. [addr |-> a, size |-> n] \in Desc /\ Area(a, n) \subseteq Page
  BY <1>1, FirstFitFree
<1>3. /\ pc[c] = "user" /\ c \in open /\ pc' = [pc EXCEPT ![c] = "record"]
      /\ UNCHANGED <<nblocks, head, bitwork_mem, open, open_count, held, lost>>
  BY DEF PhymemAlloc, Enters, Runs
<1>4. TypeOK'
  BY <1>1, <1>2, <1>3 DEF TypeOK, PC
<1> QED
  BY <1>3, <1>4 DEF CountExact, ClosedIdle, TypeOK

\* its record, and the copy to the caller,
LEMMA RecordBase ==
  ASSUME Base, UNCHANGED overlap, NEW c \in Clients, PhymemRecord(c) PROVE Base'
<1> USE DEF Base
<1>0. pc[c] = "record" /\ c \in open /\ mem[c] \in Desc
  BY DEF PhymemRecord, Runs, TypeOK
<1>1. head' \in [Page -> Seq(1..BlockPages)]
  <2>1. mem[c].addr \in Page /\ mem[c].size \in 1..BlockPages
    BY <1>0 DEF Desc
  <2>2. <<mem[c].size>> \o head[mem[c].addr] \in Seq(1..BlockPages)
    BY <2>1 DEF TypeOK
  <2> QED
    BY <2>2 DEF PhymemRecord, TypeOK
<1>2. TypeOK'
  BY <1>0, <1>1 DEF PhymemRecord, TypeOK, PC
<1> QED
  BY <1>0, <1>2 DEF PhymemRecord, CountExact, ClosedIdle, TypeOK

\* a copy that faults,
LEMMA FaultBase ==
  ASSUME Base, UNCHANGED overlap, NEW c \in Clients, PhymemFault(c) PROVE Base'
<1> USE DEF Base
<1>0. pc[c] = "record" /\ c \in open /\ mem[c] \in Desc
  BY DEF PhymemFault, Runs, TypeOK
<1>1. lost' \subseteq Page
  BY <1>0, PagesNonEmpty DEF PhymemFault, TypeOK
<1>2. TypeOK'
  BY <1>0, <1>1 DEF PhymemFault, TypeOK, PC
<1> QED
  BY <1>0, <1>2 DEF PhymemFault, CountExact, ClosedIdle, TypeOK

\* a free of any descriptor,
LEMMA FreeBase ==
  ASSUME Base, UNCHANGED overlap, NEW c \in Clients, NEW d \in Desc, PhymemFree(c, d) PROVE Base'
<1> USE DEF Base
<1>0. pc[c] = "user" /\ c \in open
  BY DEF PhymemFree, Enters, Runs
<1>1. TypeOK'
  BY <1>0 DEF PhymemFree, TypeOK, PC
<1> QED
  BY <1>0, <1>1 DEF PhymemFree, CountExact, ClosedIdle, TypeOK

\* the removal of its record,
LEMMA UnlistBase ==
  ASSUME Base, UNCHANGED overlap, NEW c \in Clients, PhymemUnlist(c) PROVE Base'
<1> USE DEF Base
<1>0. pc[c] = "unlist" /\ c \in open /\ mem[c] \in Desc
  BY DEF PhymemUnlist, Runs, TypeOK
<1>1. head' \in [Page -> Seq(1..BlockPages)]
  <2>1. mem[c].addr \in Page
    BY <1>0 DEF Desc
  <2>2. ASSUME NEW s \in Seq(1..BlockPages)
        PROVE  (IF s = <<>> THEN s ELSE Tail(s)) \in Seq(1..BlockPages)
    <3>1. CASE s = <<>>
      BY <3>1
    <3>2. CASE s # <<>>
      BY <3>2, HeadTailProperties
    <3> QED
      BY <3>1, <3>2
  <2> QED
    BY <2>1, <2>2 DEF PhymemUnlist, TypeOK
<1>2. TypeOK'
  BY <1>0, <1>1 DEF PhymemUnlist, TypeOK, PC
<1> QED
  BY <1>0, <1>2 DEF PhymemUnlist, CountExact, ClosedIdle, TypeOK

\* GET_WORK_ADDR,
LEMMA WorkBase ==
  ASSUME Base, UNCHANGED overlap, NEW c \in Clients,
         GetWorkAddr(c) \/ WorkCopyIn(c) \/ WorkAlloc(c) \/ WorkFail(c)
  PROVE  /\ Base' /\ used \subseteq used'
         /\ c \in open /\ pc[c] \in {"user", "work", "workalloc"}
         /\ \E s \in {"user", "work", "workalloc"} : pc' = [pc EXCEPT ![c] = s]
         /\ UNCHANGED <<nblocks, head, open, open_count, mem, held, lost>>
<1> USE DEF Base
<1>0. /\ c \in open /\ pc[c] \in {"user", "work", "workalloc"}
      /\ \E s \in {"user", "work", "workalloc"} : pc' = [pc EXCEPT ![c] = s]
      /\ UNCHANGED <<nblocks, head, open, open_count, mem, held, lost>>
  BY DEF GetWorkAddr, WorkCopyIn, WorkAlloc, WorkFail, Enters, Runs
<1>1. bitwork_mem' \in Desc \cup {NoMem} /\ used \subseteq used' /\ used' \subseteq Page
  <2>1. CASE WorkAlloc(c)
    <3>1. PICK a \in Page : /\ FirstFit(WorkPages, a) /\ used' = used \cup Area(a, WorkPages)
                            /\ bitwork_mem' = [addr |-> a, size |-> WorkPages]
      BY <2>1 DEF WorkAlloc
    <3> QED
      BY <3>1, FirstFitFree DEF TypeOK
  <2>2. CASE ~WorkAlloc(c)
    BY <2>2 DEF GetWorkAddr, WorkCopyIn, WorkFail, TypeOK
  <2> QED
    BY <2>1, <2>2
<1>2. TypeOK'
  BY <1>0, <1>1 DEF TypeOK, PC
<1>3. CountExact' /\ ClosedIdle'
  BY <1>0 DEF CountExact, ClosedIdle, TypeOK
<1> QED
  BY <1>0, <1>1, <1>2, <1>3

\* and a reload of the module.
LEMMA ReloadBase ==
  ASSUME Base, UNCHANGED overlap, Reload PROVE Base'
<1> USE DEF Base
<1>1. TypeOK'
  <2>1. head' \in [Page -> Seq(1..BlockPages)]
    BY DEF Reload
  <2>2. open_count' \in 0..OpenMod-1
    BY OpenCountFits DEF Reload, TypeOK
  <2> QED
    BY <2>1, <2>2 DEF Reload, TypeOK
<1> QED
  BY <1>1, FS_EmptySet DEF Reload, CountExact, ClosedIdle

-----------------------------------------------------------------------------
\* One lemma per action: it preserves the invariant.

\* PInv, step by step: vpu_open,
LEMMA OpenInv ==
  ASSUME PInv, UNCHANGED overlap, NEW c \in Clients, vpu_open(c) PROVE PInv'
<1>1. Base'
  BY OpenBase DEF PInv
<1>2. LiveMarked' /\ LiveDisjoint' /\ Fresh'
  BY DEF PInv, vpu_open, LiveMarked, LiveDisjoint, Live, Fresh
<1> QED
  BY <1>1, <1>2 DEF PInv

\* vpu_release: the last close finds nobody who holds a buffer,
LEMMA ReleaseInv ==
  ASSUME PInv, UNCHANGED overlap, NEW c \in Clients, vpu_release(c) PROVE PInv'
<1> USE DEF PInv, Base
<1>1. pc[c] = "user" /\ held' = [held EXCEPT ![c] = {}] /\ pc' = pc /\ mem' = mem
  BY DEF vpu_release
<1>2. Base' /\ (open_count = 1 => open' = {})
  BY ReleaseBase
<1>3. Fresh'
  BY <1>1 DEF Fresh, TypeOK
<1>4. \A o \in Clients : Live(o)' \subseteq Live(o)
  BY <1>1 DEF Live, TypeOK
<1>5. CASE open_count = 1
  <2>1. \A o \in Clients : Live(o)' = {}
    BY <1>2, <1>5 DEF ClosedIdle, Live
  <2> QED
    BY <1>2, <1>3, <2>1, Empties
<1>6. CASE open_count # 1
  <2>1. used' = used
    BY <1>6 DEF vpu_release
  <2> QED
    BY <1>2, <1>3, <1>4, <2>1, Shrinks
<1> QED
  BY <1>5, <1>6

\* an allocation takes unmarked pages, none of them live,
LEMMA AllocInv ==
  ASSUME PInv, UNCHANGED overlap, NEW c \in Clients, NEW n, PhymemAlloc(c, n) PROVE PInv'
<1> USE DEF PInv, Base
<1>1. PICK a \in Page : /\ FirstFit(n, a) /\ used' = used \cup Area(a, n)
                        /\ mem' = [mem EXCEPT ![c] = [addr |-> a, size |-> n]]
  BY DEF PhymemAlloc
<1> DEFINE d == [addr |-> a, size |-> n]
<1>2. d \in Desc /\ Pages(d) = Area(a, n) /\ Area(a, n) \cap used = {}
  BY <1>1, FirstFitFree
<1>3. /\ pc[c] = "user" /\ pc' = [pc EXCEPT ![c] = "record"]
      /\ mem' = [mem EXCEPT ![c] = d] /\ used' = used \cup Pages(d) /\ held' = held
  BY <1>1, <1>2 DEF PhymemAlloc, Enters
<1> HIDE DEF d
<1>4. Base'
  BY AllocBase
<1>5. Live(c)' = held[c] \cup {d} /\ Live(c) = held[c]
  BY <1>3 DEF Live, TypeOK
<1>6. \A o \in Clients \ {c} : Live(o)' = Live(o)
  BY <1>3 DEF Live, TypeOK
<1>7. \A o \in Clients : \A e \in Live(o) : Pages(e) \subseteq used /\ Pages(e) \cap Pages(d) = {}
  BY <1>2 DEF LiveMarked
<1>8. LiveMarked'
  BY <1>3, <1>5, <1>6, <1>7 DEF LiveMarked
<1>9. LiveDisjoint'
  BY <1>5, <1>6, <1>7 DEF LiveDisjoint
<1>10. Fresh'
  <2>1. d \notin held[c]
    BY <1>2, <1>5, <1>7, PagesNonEmpty
  <2> QED
    BY <2>1, <1>3 DEF Fresh, TypeOK
<1> QED
  BY <1>4, <1>8, <1>9, <1>10

\* the buffer passes to its caller,
LEMMA RecordInv ==
  ASSUME PInv, UNCHANGED overlap, NEW c \in Clients, PhymemRecord(c) PROVE PInv'
<1> USE DEF PInv, Base
<1>1. Base'
  BY RecordBase
<1>2. \A o \in Clients : Live(o)' = Live(o)
  BY DEF PhymemRecord, Live, TypeOK
<1>3. LiveMarked' /\ LiveDisjoint'
  BY <1>2, Shrinks DEF PhymemRecord
<1>4. Fresh'
  BY DEF PhymemRecord, Fresh, TypeOK
<1> QED
  BY <1>1, <1>3, <1>4

\* or is lost with a copy that faults,
LEMMA FaultInv ==
  ASSUME PInv, UNCHANGED overlap, NEW c \in Clients, PhymemFault(c) PROVE PInv'
<1> USE DEF PInv, Base
<1>1. Base'
  BY FaultBase
<1>2. \A o \in Clients : Live(o)' \subseteq Live(o)
  BY DEF PhymemFault, Live, TypeOK
<1>3. LiveMarked' /\ LiveDisjoint'
  BY <1>2, Shrinks DEF PhymemFault
<1>4. Fresh'
  BY DEF PhymemFault, Fresh, TypeOK
<1> QED
  BY <1>1, <1>3, <1>4

\* a free unmarks the caller's own pages,
LEMMA FreeInv ==
  ASSUME PInv, UNCHANGED overlap, NEW c \in Clients, NEW d \in held[c], PhymemFree(c, d) PROVE PInv'
<1> USE DEF PInv, Base
<1>1. pc[c] = "user" /\ d \in Desc /\ d \in Live(c) /\ used' = used \ Pages(d)
  BY DEF PhymemFree, Enters, TypeOK, Live
<1>2. Base'
  BY <1>1, FreeBase
<1>3. /\ \A o \in Clients : Live(o)' \subseteq Live(o)
      /\ d \notin Live(c)'
  BY <1>1 DEF PhymemFree, Live, TypeOK
<1>4. \A o \in Clients : \A e \in Live(o)' : Pages(e) \cap Pages(d) = {}
  BY <1>1, <1>3 DEF LiveDisjoint
<1>5. LiveMarked'
  BY <1>1, <1>3, <1>4 DEF LiveMarked
<1>6. LiveDisjoint'
  BY <1>3 DEF LiveDisjoint
<1>7. Fresh'
  BY <1>1 DEF PhymemFree, Fresh, TypeOK
<1> QED
  BY <1>2, <1>5, <1>6, <1>7

\* the removal of a record,
LEMMA UnlistInv ==
  ASSUME PInv, UNCHANGED overlap, NEW c \in Clients, PhymemUnlist(c) PROVE PInv'
<1> USE DEF PInv, Base
<1>1. Base'
  BY UnlistBase
<1>2. \A o \in Clients : Live(o)' = Live(o)
  BY DEF PhymemUnlist, Live, TypeOK
<1>3. LiveMarked' /\ LiveDisjoint'
  BY <1>2, Shrinks DEF PhymemUnlist
<1>4. Fresh'
  BY DEF PhymemUnlist, Fresh, TypeOK
<1> QED
  BY <1>1, <1>3, <1>4

\* GET_WORK_ADDR,
LEMMA WorkInv ==
  ASSUME PInv, UNCHANGED overlap, NEW c \in Clients,
         GetWorkAddr(c) \/ WorkCopyIn(c) \/ WorkAlloc(c) \/ WorkFail(c)
  PROVE  PInv'
<1> USE DEF PInv, Base
<1>1. /\ Base' /\ used \subseteq used' /\ pc[c] \in {"user", "work", "workalloc"}
      /\ \E s \in {"user", "work", "workalloc"} : pc' = [pc EXCEPT ![c] = s]
      /\ mem' = mem /\ held' = held
  <2> HIDE DEF PInv, Base
  <2> QED
    BY WorkBase DEF PInv
<1>2. \A o \in Clients : Live(o)' = Live(o)
  BY <1>1 DEF Live, TypeOK
<1>3. LiveMarked' /\ LiveDisjoint'
  BY <1>1, <1>2, Shrinks
<1>4. Fresh'
  BY <1>1 DEF Fresh, TypeOK
<1> QED
  BY <1>1, <1>3, <1>4

\* and a reload of the module.
LEMMA ReloadInv ==
  ASSUME PInv, UNCHANGED overlap, Reload PROVE PInv'
<1> USE DEF PInv, Base
<1>1. Base'
  BY ReloadBase
<1>2. \A c \in Clients : Live(c)' = {}
  BY DEF Reload, ClosedIdle, Live
<1>3. LiveMarked' /\ LiveDisjoint'
  BY <1>2, Empties
<1>4. Fresh'
  BY DEF Reload, ClosedIdle, Fresh
<1> QED
  BY <1>1, <1>3, <1>4

\* Every step preserves the invariant.
LEMMA PNext == PInv /\ [Next]_vars => PInv'
<1> SUFFICES ASSUME PInv, [Next]_vars PROVE PInv'
  OBVIOUS
<1>1. CASE Reload /\ UNCHANGED overlap
  BY <1>1, ReloadInv
<1>2. ASSUME NEW c \in Clients, ClientStep(c), UNCHANGED overlap PROVE PInv'
  <2>1. CASE vpu_open(c)
    BY <1>2, <2>1, OpenInv
  <2>2. CASE vpu_release(c)
    BY <1>2, <2>2, ReleaseInv
  <2>3. CASE \E n \in Sizes : PhymemAlloc(c, n)
    BY <1>2, <2>3, AllocInv
  <2>4. CASE PhymemRecord(c)
    BY <1>2, <2>4, RecordInv
  <2>5. CASE PhymemFault(c)
    BY <1>2, <2>5, FaultInv
  <2>6. CASE \E d \in held[c] : PhymemFree(c, d)
    BY <1>2, <2>6, FreeInv
  <2>7. CASE PhymemUnlist(c)
    BY <1>2, <2>7, UnlistInv
  <2>8. CASE GetWorkAddr(c) \/ WorkCopyIn(c) \/ WorkAlloc(c) \/ WorkFail(c)
    BY <1>2, <2>8, WorkInv
  <2> QED
    BY <1>2, <2>1, <2>2, <2>3, <2>4, <2>5, <2>6, <2>7, <2>8 DEF ClientStep
<1>3. CASE UNCHANGED vars
  BY <1>3 DEF vars, PInv, Base, TypeOK, LiveMarked, LiveDisjoint, Live, CountExact, ClosedIdle, Fresh
<1> QED
  BY <1>1, <1>2, <1>3 DEF Next

\* However the ioctls of any number of processes overlap, the driver's state is
\* well typed, a buffer in use keeps its pages, and no two share one.
THEOREM PoolSafe == Spec => [](TypeOK /\ LiveMarked /\ LiveDisjoint)
<1>1. PInv => TypeOK /\ LiveMarked /\ LiveDisjoint
  BY DEF PInv, Base
<1> QED
  BY <1>1, PInit, PNext, PTL DEF Spec

-----------------------------------------------------------------------------
\* The refinement: what the clients hold, as sets of pages.
Granted == [c \in Clients |-> {Pages(d) : d \in held[c]}]

\* Distinct buffers of one client are distinct sets of pages.
LEMMA PagesInjective ==
  ASSUME PInv, NEW c \in Clients, NEW d \in Live(c), NEW e \in Live(c), Pages(d) = Pages(e)
  PROVE  d = e
<1>1. d \in Desc
  BY DEF PInv, Base, TypeOK, Live
<1> QED
  BY <1>1, PagesNonEmpty DEF PInv, LiveDisjoint

\* Handing out a buffer is a Grant of PagePool.
LEMMA RecordGrants ==
  ASSUME PInv, NEW c \in Clients, PhymemRecord(c) PROVE Promise!Grant(c)
<1> DEFINE P == Pages(mem[c])
<1>1. /\ mem[c] \in Desc /\ mem[c] \in Live(c) /\ mem[c] \notin held[c]
      /\ held' = [held EXCEPT ![c] = @ \cup {mem[c]}]
  BY DEF PhymemRecord, PInv, Base, TypeOK, Live, Fresh
<1>2. P # {} /\ P \in SUBSET Page
  BY <1>1, PagesNonEmpty
<1>3. ASSUME NEW o \in Clients, NEW d \in held[o] PROVE P \cap Pages(d) = {}
  <2>1. d \in Live(o) /\ (c # o \/ mem[c] # d)
    BY <1>1 DEF Live
  <2> QED
    BY <1>1, <2>1 DEF PInv, LiveDisjoint
<1>4. P \cap UNION {UNION Granted[o] : o \in Clients} = {}
  BY <1>3 DEF Granted
<1>5. Granted' = [Granted EXCEPT ![c] = @ \cup {P}]
  <2>1. \A o \in Clients : {Pages(d) : d \in held'[o]} =
           IF o = c THEN {Pages(d) : d \in held[c]} \cup {P} ELSE {Pages(d) : d \in held[o]}
    BY <1>1 DEF PInv, Base, TypeOK
  <2> QED
    BY <2>1 DEF Granted
<1> QED
  BY <1>2, <1>4, <1>5 DEF Promise!Grant, Promise!Taken, Granted

\* Freeing a buffer, and closing the device, are Drops of PagePool.
LEMMA FreeDrops ==
  ASSUME PInv, NEW c \in Clients, NEW d \in held[c], PhymemFree(c, d) PROVE Promise!Drop(c)
<1> DEFINE S == {Pages(d)}
<1>1. S \in SUBSET Granted[c]
  BY DEF Granted
<1>2. held' = [held EXCEPT ![c] = @ \ {d}] /\ d \in Live(c)
  BY DEF PhymemFree, Live
<1>3. \A e \in held[c] : e # d => Pages(e) # Pages(d)
  BY <1>2, PagesInjective DEF Live
<1>4. Granted' = [Granted EXCEPT ![c] = @ \ S]
  <2>1. \A o \in Clients : {Pages(e) : e \in held'[o]} =
           IF o = c THEN {Pages(e) : e \in held[c]} \ S ELSE {Pages(e) : e \in held[o]}
    BY <1>2, <1>3 DEF PInv, Base, TypeOK
  <2> QED
    BY <2>1 DEF Granted
<1> QED
  BY <1>1, <1>4 DEF Promise!Drop, Granted

\* vpu_release drops the page sets of its caller and grants none.
LEMMA ReleaseDrops ==
  ASSUME PInv, NEW c \in Clients, vpu_release(c) PROVE Promise!Drop(c)
<1>1. held' = [held EXCEPT ![c] = {}]
  BY DEF vpu_release
<1>2. Granted' = [Granted EXCEPT ![c] = @ \ Granted[c]]
  <2>1. \A o \in Clients : {Pages(e) : e \in held'[o]} =
           IF o = c THEN {} ELSE {Pages(e) : e \in held[o]}
    BY <1>1 DEF PInv, Base, TypeOK
  <2> QED
    BY <2>1 DEF Granted
<1> QED
  BY <1>2 DEF Promise!Drop, Granted

\* Every step of the driver is a step of PagePool or leaves the buffers alone.
LEMMA StepRefines ==
  ASSUME PInv, [Next]_vars PROVE [Promise!Next]_Granted
<1>1. CASE held' = held
  BY <1>1 DEF Granted
<1>2. ASSUME NEW c \in Clients, ClientStep(c), held' # held PROVE Promise!Next
  <2>1. CASE vpu_release(c)
    BY <2>1, ReleaseDrops DEF Promise!Next
  <2>2. CASE PhymemRecord(c)
    BY <2>2, RecordGrants DEF Promise!Next
  <2>3. CASE \E d \in held[c] : PhymemFree(c, d)
    BY <2>3, FreeDrops DEF Promise!Next
  <2> QED
    BY <1>2, <2>1, <2>2, <2>3 DEF ClientStep, vpu_open, PhymemAlloc, PhymemFault,
       PhymemUnlist, GetWorkAddr, WorkCopyIn, WorkAlloc, WorkFail
<1> QED
  BY <1>1, <1>2 DEF Next, Reload, vars

\* The driver, with its bitmap, its records and its clean-up at the last close,
\* implements the exclusive page grants of PagePool.
THEOREM PoolRefines == Spec => PoolPromise
<1>1. Init => Promise!Init
  BY DEF Init, Promise!Init
<1>2. PInv /\ [Next]_vars => [Promise!Next]_Granted
  BY StepRefines
<1> QED
  BY <1>1, <1>2, PInit, PNext, PTL DEF Spec, PoolPromise, Promise!Spec, Granted

-----------------------------------------------------------------------------
\* Ioctls that do not overlap.

\* The pages that records q of address a stand for.
Areas(a, q) == {p \in Page : \E i \in 1..Len(q) : p \in Area(a, q[i])}
RecArea(a) == Areas(a, head[a])

\* One client at a time is inside an ioctl.
Turns == \A c, o \in Clients : c # o => pc[c] = "user" \/ pc[o] = "user"

\* An address has one record at most, the records' areas are apart, and they are
\* marked but for the one whose record is about to go; every buffer handed out has
\* its record, and one about to be recorded is apart from all records.
Listed ==
  /\ \A a \in Page : head[a] = <<>> \/ \E n \in 1..BlockPages : head[a] = <<n>>
  /\ \A a, b \in Page : a # b => RecArea(a) \cap RecArea(b) = {}
  /\ \A a \in Page : \/ RecArea(a) \subseteq used
                     \/ \E c \in Clients : pc[c] = "unlist" /\ mem[c].addr = a
  /\ \A c \in Clients : \A d \in held[c] : head[d.addr] = <<d.size>>
  /\ \A c \in Clients : pc[c] = "unlist" =>
       head[mem[c].addr] = <<mem[c].size>> /\ Pages(mem[c]) \cap used = {}
  /\ \A c \in Clients : pc[c] = "record" => \A a \in Page : Pages(mem[c]) \cap RecArea(a) = {}

\* The working buffer is marked and apart from records and allocations; while it is
\* allocated there is none.
Working ==
  /\ WorkArea \subseteq used
  /\ \A a \in Page : RecArea(a) \cap WorkArea = {}
  /\ \A c \in Clients : pc[c] = "record" => Pages(mem[c]) \cap WorkArea = {}
  /\ \A c \in Clients : pc[c] \in {"work", "workalloc"} => bitwork_mem = NoMem

\* Whose the marked pages are.
Marked ==
  /\ \A p \in used :
       \/ p \in WorkArea \cup lost
       \/ \E a \in Page : p \in RecArea(a)
       \/ \E c \in Clients : pc[c] = "record" /\ p \in Pages(mem[c])
  /\ open = {} => used \subseteq WorkArea \cup lost

\* The inductive invariant of ioctls that do not overlap.
Serial == Turns /\ Listed /\ Working /\ Marked

\* Records of an address that has none, or one.
LEMMA AreasOf ==
  /\ \A a : Areas(a, <<>>) = {}
  /\ \A a : \A n \in 1..BlockPages : Areas(a, <<n>>) = Area(a, n)
<1>1. ASSUME NEW a PROVE Areas(a, <<>>) = {}
  BY DEF Areas
<1>2. ASSUME NEW a, NEW n \in 1..BlockPages PROVE Areas(a, <<n>>) = Area(a, n)
  <2>1. Len(<<n>>) = 1 /\ <<n>>[1] = n
    OBVIOUS
  <2>2. Areas(a, <<n>>) = {p \in Page : p \in Area(a, n)}
    BY <2>1 DEF Areas
  <2> QED
    BY <2>2 DEF Area
<1> QED
  BY <1>1, <1>2

\* The pages of all records, address by address.
LEMMA RecordedAreas == Recorded = UNION {RecArea(a) : a \in Page}
BY DEF Recorded, RecArea, Areas

\* A buffer lies at its address.
LEMMA AddrInPages == \A d \in Desc : d.addr \in Page /\ d.size \in 1..BlockPages /\ d.addr \in Pages(d)
<1> SUFFICES ASSUME NEW d \in Desc
             PROVE  d.addr \in Page /\ d.size \in 1..BlockPages /\ d.addr \in Pages(d)
  OBVIOUS
<1>1. d.addr \in Page /\ d.size \in 1..BlockPages
  BY DEF Desc
<1>2. d.addr[2] \in Int
  BY <1>1, PoolConstants DEF Page
<1> QED
  BY <1>1, <1>2, PoolConstants DEF Area, Pages

\* Whoever runs is alone in the driver.
LEMMA AloneInside ==
  ASSUME ~overlap, NEW c \in Clients, Runs(c)
  PROVE  \A o \in Clients \ {c} : pc[o] = "user"
BY DEF Runs

\* Serial holds at first,
LEMMA SerialInit == Init => Serial
<1> SUFFICES ASSUME Init PROVE Serial
  OBVIOUS
<1>1. \A a \in Page : head[a] = <<>> /\ RecArea(a) = {}
  BY AreasOf DEF Init, RecArea
<1>2. WorkArea = {}
  BY DEF Init, WorkArea
<1> QED
  BY <1>1, <1>2 DEF Init, Serial, Turns, Listed, Working, Marked

\* after vpu_open,
LEMMA SerialOpen ==
  ASSUME PInv, Serial, ~overlap, NEW c \in Clients, vpu_open(c) PROVE Serial'
<1>1. \A a \in Page : RecArea(a)' = RecArea(a)
  BY DEF vpu_open, RecArea
<1>2. WorkArea' = WorkArea
  BY DEF vpu_open, WorkArea
<1> QED
  BY <1>1, <1>2 DEF vpu_open, Serial, Turns, Listed, Working, Marked

\* after vpu_release, which frees what the records name,
LEMMA SerialRelease ==
  ASSUME PInv, PInv', Serial, ~overlap, NEW c \in Clients, vpu_release(c) PROVE Serial'
<1> USE DEF PInv, Base
<1>1. /\ c \in open /\ pc[c] = "user" /\ open' = open \ {c} /\ held' = [held EXCEPT ![c] = {}]
      /\ bitwork_mem' = bitwork_mem /\ pc' = pc /\ mem' = mem /\ lost' = lost
      /\ open_count' = IF open_count > 0 THEN open_count - 1 ELSE 0
  BY DEF vpu_release
<1>2. WorkArea' = WorkArea
  BY <1>1 DEF WorkArea
<1>3. \A o \in Clients : held'[o] \subseteq held[o]
  BY <1>1 DEF TypeOK
<1>4. Turns'
  BY <1>1 DEF Serial, Turns
<1>5. CASE open_count = 1
  <2>1. open' = {}
    <3>1. open_count' = 0
      BY <1>1, <1>5
    <3> QED
      BY <3>1, FS_EmptySet DEF CountExact
  <2>2. \A o \in Clients : pc'[o] = "user" /\ held'[o] = {}
    BY <2>1 DEF ClosedIdle
  <2>3. (\A a \in Page : head'[a] = <<>>) /\ used' = used \ Recorded
    BY <1>5 DEF vpu_release, vpu_free_buffers
  <2>4. \A a \in Page : RecArea(a)' = {}
    BY <2>3, AreasOf DEF RecArea
  <2>5. Listed'
    BY <2>2, <2>3, <2>4 DEF Listed
  <2>6. WorkArea \cap Recorded = {}
    BY RecordedAreas DEF Serial, Working
  <2>7. Working'
    BY <1>2, <2>2, <2>3, <2>4, <2>6 DEF Serial, Working
  <2>8. \A p \in used' : p \in WorkArea \cup lost
    BY <1>1, <2>2, <2>3, RecordedAreas DEF Serial, Marked
  <2>9. Marked'
    BY <1>1, <1>2, <2>8 DEF Marked
  <2> QED
    BY <1>4, <2>5, <2>7, <2>9 DEF Serial
<1>6. CASE open_count # 1
  <2>1. used' = used /\ head' = head
    BY <1>6 DEF vpu_release
  <2>2. \A a \in Page : RecArea(a)' = RecArea(a)
    BY <2>1 DEF RecArea
  <2>3. open' # {}
    <3>1. open_count' # 0
      BY <1>1, <1>6, FS_RemoveElement, FS_CardinalityType DEF CountExact
    <3> QED
      BY <3>1, FS_EmptySet DEF CountExact
  <2>4. Listed'
    BY <1>1, <1>3, <2>1, <2>2 DEF Serial, Listed
  <2>5. Working' /\ Marked'
    BY <1>1, <1>2, <2>1, <2>2, <2>3 DEF Serial, Working, Marked
  <2> QED
    BY <1>4, <2>4, <2>5 DEF Serial
<1> QED
  BY <1>5, <1>6

\* after an allocation, apart from what is recorded,
LEMMA SerialAlloc ==
  ASSUME PInv, Serial, ~overlap, NEW c \in Clients, NEW n, PhymemAlloc(c, n) PROVE Serial'
<1> USE DEF PInv, Base
<1>1. PICK a \in Page : /\ FirstFit(n, a) /\ used' = used \cup Area(a, n)
                        /\ mem' = [mem EXCEPT ![c] = [addr |-> a, size |-> n]]
  BY DEF PhymemAlloc
<1> DEFINE d == [addr |-> a, size |-> n]
<1>2. d \in Desc /\ Pages(d) = Area(a, n) /\ Area(a, n) \cap used = {}
  BY <1>1, FirstFitFree
<1>3. /\ c \in open /\ pc' = [pc EXCEPT ![c] = "record"]
      /\ mem' = [mem EXCEPT ![c] = d] /\ used' = used \cup Pages(d)
      /\ UNCHANGED <<head, bitwork_mem, open, held, lost>>
      /\ \A o \in Clients : pc[o] = "user"
  BY <1>1, <1>2, AloneInside DEF PhymemAlloc, Enters, Runs
<1> HIDE DEF d
<1>4. \A o \in Clients : pc'[o] = (IF o = c THEN "record" ELSE "user")
  BY <1>3 DEF TypeOK
<1>5. mem'[c] = d
  BY <1>3 DEF TypeOK
<1>6. \A b \in Page : RecArea(b)' = RecArea(b) /\ RecArea(b) \subseteq used
  BY <1>3 DEF RecArea, Serial, Listed
<1>7. WorkArea' = WorkArea /\ WorkArea \subseteq used
  BY <1>3 DEF WorkArea, Serial, Working
<1>8. Turns'
  BY <1>4 DEF Turns
<1>9. Listed'
  <2>1. \A a1, b1 \in Page : a1 # b1 => RecArea(a1)' \cap RecArea(b1)' = {}
    BY <1>6 DEF Serial, Listed
  <2>2. \A a1 \in Page : RecArea(a1)' \subseteq used'
    BY <1>3, <1>6
  <2>3. \A o \in Clients : \A e \in held'[o] : head'[e.addr] = <<e.size>>
    BY <1>3 DEF Serial, Listed
  <2>4. \A o \in Clients : pc'[o] # "unlist"
    BY <1>4
  <2>5. \A o \in Clients : pc'[o] = "record" =>
          \A a1 \in Page : Pages(mem'[o]) \cap RecArea(a1)' = {}
    BY <1>2, <1>4, <1>5, <1>6
  <2>6. \A a1 \in Page : head'[a1] = <<>> \/ \E k \in 1..BlockPages : head'[a1] = <<k>>
    BY <1>3 DEF Serial, Listed
  <2> QED
    BY <2>1, <2>2, <2>3, <2>4, <2>5, <2>6 DEF Listed
<1>10. Working'
  BY <1>2, <1>3, <1>4, <1>5, <1>6, <1>7 DEF Serial, Working
<1>11. Marked'
  BY <1>3, <1>4, <1>5, <1>6, <1>7 DEF Serial, Marked
<1> QED
  BY <1>8, <1>9, <1>10, <1>11 DEF Serial

\* when it is recorded under an address without a record,
LEMMA SerialRecord ==
  ASSUME PInv, Serial, ~overlap, NEW c \in Clients, PhymemRecord(c) PROVE Serial'
<1> USE DEF PInv, Base
<1>0. PICK d, b : d = mem[c] /\ b = mem[c].addr
  OBVIOUS
<1>1. /\ c \in open /\ pc[c] = "record" /\ d \in Desc /\ b \in Page /\ b \in Pages(d)
      /\ d.size \in 1..BlockPages /\ Pages(d) = Area(b, d.size)
      /\ \A o \in Clients \ {c} : pc[o] = "user"
  BY <1>0, AddrInPages, AloneInside DEF PhymemRecord, Runs, TypeOK, Pages
<1>2. /\ head' = [head EXCEPT ![b] = <<d.size>> \o @] /\ held' = [held EXCEPT ![c] = @ \cup {d}]
      /\ pc' = [pc EXCEPT ![c] = "user"]
      /\ UNCHANGED <<used, bitwork_mem, open, lost>>
  BY <1>0 DEF PhymemRecord
<1>3. Pages(d) \subseteq used
  BY <1>0, <1>1 DEF LiveMarked, Live
<1>4. head[b] = <<>>
  <2>1. RecArea(b) \cap Pages(d) = {}
    BY <1>0, <1>1 DEF Serial, Listed
  <2>2. ASSUME NEW n \in 1..BlockPages, head[b] = <<n>> PROVE FALSE
    <3>1. RecArea(b) = Area(b, n)
      BY <2>2, AreasOf DEF RecArea
    <3>2. [addr |-> b, size |-> n] \in Desc
      BY <1>1 DEF Desc
    <3>3. b \in Area(b, n)
      BY <3>2, AddrInPages DEF Pages
    <3> QED
      BY <1>1, <2>1, <3>1, <3>3
  <2> QED
    BY <1>1, <2>2 DEF Serial, Listed
<1>5. head'[b] = <<d.size>> /\ \A a \in Page \ {b} : head'[a] = head[a]
  <2>1. <<d.size>> \o <<>> = <<d.size>>
    OBVIOUS
  <2> QED
    BY <1>1, <1>2, <1>4, <2>1 DEF TypeOK
<1>6. RecArea(b)' = Pages(d) /\ \A a \in Page \ {b} : RecArea(a)' = RecArea(a)
  BY <1>1, <1>5, AreasOf DEF RecArea
<1>7. RecArea(b) = {}
  BY <1>4, AreasOf DEF RecArea
<1>8. \A o \in Clients : pc'[o] = "user"
  BY <1>1, <1>2 DEF TypeOK
<1>9. held'[c] = held[c] \cup {d} /\ \A o \in Clients \ {c} : held'[o] = held[o]
  BY <1>2 DEF TypeOK
<1>10. \A o \in Clients : \A e \in held[o] : e \in Desc /\ head[e.addr] = <<e.size>> /\ e.addr # b
  <2>1. ASSUME NEW o \in Clients, NEW e \in held[o]
        PROVE  e \in Desc /\ head[e.addr] = <<e.size>> /\ e.addr # b
    <3>1. e \in Desc /\ head[e.addr] = <<e.size>>
      BY DEF TypeOK, Serial, Listed
    <3>2. head[e.addr] # <<>>
      BY <3>1
    <3> QED
      BY <3>1, <3>2, <1>4
  <2> QED
    BY <2>1
<1>11. WorkArea' = WorkArea
  BY <1>2 DEF WorkArea
<1>12. Listed'
  <2>1. \A a \in Page : head'[a] = <<>> \/ \E n \in 1..BlockPages : head'[a] = <<n>>
    BY <1>1, <1>5 DEF Serial, Listed
  <2>2. \A a, e \in Page : a # e => RecArea(a)' \cap RecArea(e)' = {}
    BY <1>0, <1>1, <1>6 DEF Serial, Listed
  <2>3. \A a \in Page : RecArea(a)' \subseteq used'
    BY <1>1, <1>2, <1>3, <1>6 DEF Serial, Listed
  <2>4. \A o \in Clients : \A e \in held'[o] : head'[e.addr] = <<e.size>>
    <3>1. d.addr = b
      BY <1>0
    <3>2. ASSUME NEW o \in Clients, NEW e \in held'[o] PROVE head'[e.addr] = <<e.size>>
      <4>1. CASE e = d
        BY <4>1, <3>1, <1>5
      <4>2. CASE e # d
        <5>1. e \in held[o]
          BY <4>2, <1>9
        <5>2. e.addr \in Page \ {b} /\ head[e.addr] = <<e.size>>
          BY <5>1, <1>10, AddrInPages
        <5> QED
          BY <5>2, <1>5
      <4> QED
        BY <4>1, <4>2
    <3> QED
      BY <3>2
  <2> QED
    BY <1>8, <2>1, <2>2, <2>3, <2>4 DEF Listed
<1>13. Working'
  BY <1>0, <1>1, <1>2, <1>6, <1>8, <1>11 DEF Serial, Working
<1>14. Marked'
  BY <1>0, <1>1, <1>2, <1>6, <1>7, <1>11 DEF Serial, Marked
<1> QED
  BY <1>8, <1>12, <1>13, <1>14 DEF Serial, Turns

\* when its copy faults,
LEMMA SerialFault ==
  ASSUME PInv, Serial, ~overlap, NEW c \in Clients, PhymemFault(c) PROVE Serial'
<1> USE DEF PInv, Base
<1>1. /\ c \in open /\ pc[c] = "record"
      /\ \A o \in Clients \ {c} : pc[o] = "user"
      /\ pc' = [pc EXCEPT ![c] = "user"] /\ lost' = lost \cup Pages(mem[c])
      /\ UNCHANGED <<used, head, bitwork_mem, open, held>>
  BY AloneInside DEF PhymemFault, Runs
<1>2. \A o \in Clients : pc'[o] = "user"
  BY <1>1 DEF TypeOK
<1>3. \A a \in Page : RecArea(a)' = RecArea(a)
  BY <1>1 DEF RecArea
<1>4. WorkArea' = WorkArea
  BY <1>1 DEF WorkArea
<1>5. Listed'
  BY <1>1, <1>2, <1>3 DEF Serial, Listed
<1>6. Working' /\ Turns'
  BY <1>1, <1>2, <1>3, <1>4 DEF Serial, Working, Turns
<1>7. Marked'
  BY <1>1, <1>3, <1>4 DEF Serial, Marked
<1> QED
  BY <1>5, <1>6, <1>7 DEF Serial

\* after a free, whose record is about to go,
LEMMA SerialFree ==
  ASSUME PInv, Serial, ~overlap, NEW c \in Clients, NEW d \in held[c], PhymemFree(c, d)
  PROVE  Serial'
<1> USE DEF PInv, Base
<1>1. /\ c \in open /\ d \in Desc
      /\ \A o \in Clients : pc[o] = "user"
      /\ pc' = [pc EXCEPT ![c] = "unlist"] /\ mem' = [mem EXCEPT ![c] = d]
      /\ used' = used \ Pages(d) /\ held' = [held EXCEPT ![c] = @ \ {d}]
      /\ UNCHANGED <<head, bitwork_mem, open, lost>>
  BY AloneInside DEF PhymemFree, Enters, Runs, TypeOK
<1>2. (\A o \in Clients : pc'[o] = (IF o = c THEN "unlist" ELSE "user")) /\ mem'[c] = d
  BY <1>1 DEF TypeOK
<1>3. \A a \in Page : RecArea(a)' = RecArea(a) /\ RecArea(a) \subseteq used
  BY <1>1 DEF RecArea, Serial, Listed
<1>4. WorkArea' = WorkArea
  BY <1>1 DEF WorkArea
<1>5. d.addr \in Page /\ RecArea(d.addr) = Pages(d) /\ head[d.addr] = <<d.size>>
  BY <1>1, AddrInPages, AreasOf DEF RecArea, Serial, Listed, Pages
<1>6. \A o \in Clients : held'[o] \subseteq held[o]
  BY <1>1 DEF TypeOK
<1>7. Turns'
  BY <1>2 DEF Turns
<1>8. Listed'
  <2>1. \A a \in Page : a # d.addr => RecArea(a)' \subseteq used'
    BY <1>1, <1>3, <1>5 DEF Serial, Listed
  <2>2. \A a, b \in Page : a # b => RecArea(a)' \cap RecArea(b)' = {}
    BY <1>3 DEF Serial, Listed
  <2>3. \A a \in Page : \/ RecArea(a)' \subseteq used'
                       \/ \E o \in Clients : pc'[o] = "unlist" /\ mem'[o].addr = a
    BY <1>2, <2>1
  <2>4. \A o \in Clients : \A e \in held'[o] : head'[e.addr] = <<e.size>>
    BY <1>1, <1>6 DEF Serial, Listed
  <2>5. \A o \in Clients : pc'[o] = "unlist" =>
          head'[mem'[o].addr] = <<mem'[o].size>> /\ Pages(mem'[o]) \cap used' = {}
    BY <1>1, <1>2, <1>5
  <2>6. \A a \in Page : head'[a] = <<>> \/ \E n \in 1..BlockPages : head'[a] = <<n>>
    BY <1>1 DEF Serial, Listed
  <2>7. \A o \in Clients : pc'[o] # "record"
    BY <1>2
  <2> QED
    BY <2>2, <2>3, <2>4, <2>5, <2>6, <2>7 DEF Listed
<1>9. Working'
  BY <1>1, <1>2, <1>3, <1>4, <1>5 DEF Serial, Working
<1>10. Marked'
  BY <1>1, <1>3, <1>4 DEF Serial, Marked
<1> QED
  BY <1>7, <1>8, <1>9, <1>10 DEF Serial

\* when the record goes,
LEMMA SerialUnlist ==
  ASSUME PInv, Serial, ~overlap, NEW c \in Clients, PhymemUnlist(c) PROVE Serial'
<1> USE DEF PInv, Base
<1>0. PICK d, b : d = mem[c] /\ b = mem[c].addr
  OBVIOUS
<1>1. /\ c \in open /\ pc[c] = "unlist" /\ d \in Desc /\ b \in Page
      /\ \A o \in Clients \ {c} : pc[o] = "user"
  BY <1>0, AddrInPages, AloneInside DEF PhymemUnlist, Runs, TypeOK
<1>2. head[b] = <<d.size>> /\ d.size \in 1..BlockPages /\ Pages(d) \cap used = {}
  BY <1>0, <1>1, AddrInPages DEF Serial, Listed
<1>3. /\ head' = [head EXCEPT ![b] = IF @ = <<>> THEN @ ELSE Tail(@)]
      /\ pc' = [pc EXCEPT ![c] = "user"]
      /\ UNCHANGED <<used, bitwork_mem, open, held, lost>>
  BY <1>0 DEF PhymemUnlist
<1>4. head'[b] = <<>> /\ \A a \in Page \ {b} : head'[a] = head[a]
  <2>1. Tail(<<d.size>>) = <<>>
    OBVIOUS
  <2> QED
    BY <1>1, <1>2, <1>3, <2>1 DEF TypeOK
<1>5. RecArea(b)' = {} /\ \A a \in Page \ {b} : RecArea(a)' = RecArea(a)
  BY <1>4, AreasOf DEF RecArea
<1>6. RecArea(b) = Pages(d)
  BY <1>0, <1>2, AreasOf DEF RecArea, Pages
<1>7. \A o \in Clients : pc'[o] = "user"
  BY <1>1, <1>3 DEF TypeOK
<1>8. \A o \in Clients : \A e \in held[o] : e.addr # b
  <2>1. ASSUME NEW o \in Clients, NEW e \in held[o], e.addr = b PROVE FALSE
    <3>1. e \in Desc /\ head[b] = <<e.size>>
      BY <2>1 DEF TypeOK, Serial, Listed
    <3>2. e.size = d.size
      BY <3>1, <1>2
    <3>3. Pages(e) = Pages(d) /\ Pages(e) # {} /\ Pages(e) \subseteq used
      BY <1>0, <2>1, <3>1, <3>2, PagesNonEmpty DEF Pages, LiveMarked, Live
    <3> QED
      BY <1>2, <3>3
  <2> QED
    BY <2>1
<1>9. WorkArea' = WorkArea
  BY <1>3 DEF WorkArea
<1>10. \A o \in Clients : \A e \in held[o] : e.addr \in Page
  BY AddrInPages DEF TypeOK
<1>11. Listed'
  <2>1. \A a, e \in Page : a # e => RecArea(a)' \cap RecArea(e)' = {}
    BY <1>5 DEF Serial, Listed
  <2>2. ASSUME NEW a \in Page PROVE RecArea(a)' \subseteq used'
    <3>1. CASE a = b
      BY <3>1, <1>5
    <3>2. CASE a # b
      BY <3>2, <1>0, <1>1, <1>3, <1>5 DEF Serial, Listed
    <3> QED
      BY <3>1, <3>2
  <2>3. \A o \in Clients : \A e \in held'[o] : head'[e.addr] = <<e.size>>
    BY <1>3, <1>4, <1>8, <1>10 DEF Serial, Listed
  <2>4. \A a \in Page : head'[a] = <<>> \/ \E n \in 1..BlockPages : head'[a] = <<n>>
    BY <1>4 DEF Serial, Listed
  <2> QED
    BY <1>7, <2>1, <2>2, <2>3, <2>4 DEF Listed
<1>12. Working' /\ Turns'
  <2>1. \A a \in Page : RecArea(a)' \subseteq RecArea(a)
    BY <1>5
  <2>2. \A a \in Page : RecArea(a)' \cap WorkArea' = {}
    BY <1>9, <2>1 DEF Serial, Working
  <2>3. WorkArea' \subseteq used'
    BY <1>3, <1>9 DEF Serial, Working
  <2> QED
    BY <1>7, <2>2, <2>3 DEF Working, Turns
<1>13. Marked'
  BY <1>1, <1>2, <1>3, <1>5, <1>6, <1>9 DEF Serial, Marked
<1> QED
  BY <1>11, <1>12, <1>13 DEF Serial

\* after GET_WORK_ADDR,
LEMMA SerialWork ==
  ASSUME PInv, Serial, ~overlap, NEW c \in Clients,
         GetWorkAddr(c) \/ WorkCopyIn(c) \/ WorkAlloc(c) \/ WorkFail(c)
  PROVE  Serial'
<1> USE DEF PInv, Base
<1>1. /\ c \in open /\ pc[c] \in {"user", "work", "workalloc"}
      /\ \A o \in Clients \ {c} : pc[o] = "user"
      /\ UNCHANGED <<head, open, mem, held, lost>>
  BY AloneInside DEF GetWorkAddr, WorkCopyIn, WorkAlloc, WorkFail, Enters, Runs
<1>2. bitwork_mem = NoMem
  BY <1>1 DEF GetWorkAddr, WorkCopyIn, WorkAlloc, WorkFail, Enters, Serial, Working
<1>3. \A a \in Page : RecArea(a)' = RecArea(a) /\ RecArea(a) \subseteq used
  BY <1>1 DEF RecArea, Serial, Listed
<1>4. CASE ~WorkAlloc(c)
  <2>1. /\ used' = used /\ bitwork_mem' = NoMem
        /\ \E at \in {"user", "work", "workalloc"} : pc' = [pc EXCEPT ![c] = at]
    BY <1>2, <1>4 DEF GetWorkAddr, WorkCopyIn, WorkFail
  <2>2. /\ pc'[c] \in {"user", "work", "workalloc"}
        /\ \A o \in Clients \ {c} : pc'[o] = "user"
    BY <1>1, <2>1 DEF TypeOK
  <2>3. WorkArea' = {} /\ WorkArea = {}
    BY <1>2, <2>1 DEF WorkArea
  <2>4. Turns' /\ Listed'
    BY <1>1, <1>3, <2>1, <2>2 DEF Serial, Turns, Listed
  <2>5. Working'
    BY <1>1, <1>3, <2>1, <2>2, <2>3 DEF Serial, Working
  <2>6. Marked'
    BY <1>1, <1>3, <2>1, <2>3 DEF Serial, Marked
  <2> QED
    BY <2>4, <2>5, <2>6 DEF Serial
<1>5. CASE WorkAlloc(c)
  <2>1. PICK a \in Page : /\ FirstFit(WorkPages, a) /\ used' = used \cup Area(a, WorkPages)
                          /\ bitwork_mem' = [addr |-> a, size |-> WorkPages]
    BY <1>5 DEF WorkAlloc
  <2>2. /\ bitwork_mem' \in Desc /\ Pages(bitwork_mem') = Area(a, WorkPages)
        /\ Area(a, WorkPages) \cap used = {}
    BY <2>1, FirstFitFree
  <2>3. WorkArea' = Area(a, WorkPages) /\ WorkArea = {}
    BY <1>2, <2>2, NoMemIsNoDesc DEF WorkArea
  <2>4. \A o \in Clients : pc'[o] = "user"
    BY <1>1, <1>5 DEF WorkAlloc, TypeOK
  <2>5. Turns' /\ Listed'
    BY <1>1, <1>3, <2>1, <2>4 DEF Serial, Turns, Listed
  <2>6. Working'
    BY <1>1, <1>3, <2>1, <2>2, <2>3, <2>4 DEF Serial, Working
  <2>7. Marked'
    BY <1>1, <1>3, <2>1, <2>3 DEF Serial, Marked
  <2> QED
    BY <2>5, <2>6, <2>7 DEF Serial
<1> QED
  BY <1>4, <1>5

\* after a reload,
LEMMA SerialReload ==
  ASSUME PInv, Reload PROVE Serial'
<1>1. \A c \in Clients : pc'[c] = "user" /\ held'[c] = {}
  BY DEF Reload, PInv, Base, ClosedIdle
<1>2. \A a \in Page : head'[a] = <<>> /\ RecArea(a)' = {}
  BY AreasOf DEF Reload, RecArea
<1>3. WorkArea' = {}
  BY DEF Reload, WorkArea
<1> QED
  BY <1>1, <1>2, <1>3 DEF Reload, Serial, Turns, Listed, Working, Marked

\* and after every step, as long as ioctls do not overlap.
LEMMA SerialNext == PInv /\ ~overlap /\ Serial /\ [Next]_vars => (~overlap)' /\ Serial'
<1> SUFFICES ASSUME PInv, ~overlap, Serial, [Next]_vars PROVE ~overlap' /\ Serial'
  OBVIOUS
<1>1. PInv'
  BY PNext
<1>2. CASE UNCHANGED vars
  <2>1. \A a \in Page : RecArea(a)' = RecArea(a)
    BY <1>2 DEF vars, RecArea
  <2>2. WorkArea' = WorkArea
    BY <1>2 DEF vars, WorkArea
  <2>3. Turns' /\ Working' /\ Marked'
    BY <1>2, <2>1, <2>2 DEF vars, Serial, Turns, Working, Marked
  <2>4. Listed'
    BY <1>2, <2>1 DEF vars, Serial, Listed
  <2> QED
    BY <1>2, <2>3, <2>4 DEF vars, Serial
<1>3. CASE Next
  <2>1. ~overlap'
    BY <1>3 DEF Next
  <2>2. CASE Reload
    BY <2>1, <2>2, SerialReload
  <2>3. ASSUME NEW c \in Clients, ClientStep(c) PROVE Serial'
    BY <1>1, <2>3, SerialOpen, SerialRelease, SerialAlloc, SerialRecord, SerialFault, SerialFree,
       SerialUnlist, SerialWork DEF ClientStep
  <2> QED
    BY <1>3, <2>1, <2>2, <2>3 DEF Next
<1> QED
  BY <1>2, <1>3

\* What the invariant says of the properties.
LEMMA SerialSafe ==
  ASSUME PInv, Serial PROVE WorkBufferSafe /\ RecordsTrack /\ Accounted
<1> USE DEF PInv, Base
<1>1. WorkBufferSafe
  <2>1. ASSUME NEW c \in Clients, NEW d \in Live(c) PROVE Pages(d) \cap WorkArea = {}
    <3>1. CASE d \in held[c]
      <4>1. d \in Desc /\ head[d.addr] = <<d.size>>
        BY <3>1 DEF TypeOK, Serial, Listed
      <4>2. d.addr \in Page /\ RecArea(d.addr) = Pages(d)
        BY <4>1, AddrInPages, AreasOf DEF RecArea, Pages
      <4> QED
        BY <4>2 DEF Serial, Working
    <3>2. CASE pc[c] = "record" /\ d = mem[c]
      BY <3>2 DEF Serial, Working
    <3> QED
      BY <3>1, <3>2 DEF Live
  <2> QED
    BY <2>1 DEF WorkBufferSafe, Serial, Working
<1>2. RecordsTrack
  BY DEF RecordsTrack, Serial, Listed
<1>3. Accounted
  <2>1. ASSUME NEW p \in used
        PROVE  p \in Recorded \cup WorkArea \cup lost
                     \cup UNION {Pages(mem[c]) : c \in {x \in Clients : pc[x] = "record"}}
    BY RecordedAreas DEF Serial, Marked
  <2> QED
    BY <2>1 DEF Accounted, Serial, Marked
<1> QED
  BY <1>1, <1>2, <1>3

\* While ioctls do not overlap, the working buffer stays allocated and nobody else's,
\* every buffer has its one record, and no page leaks, for any number of clients and
\* pages and any sequence of allocations, faults, frees, closes and reloads.
THEOREM SerialPool == Spec => [](SerialWorkBuffer /\ SerialRecords /\ SerialAccounted)
<1>1. PInv /\ (~overlap => Serial) => SerialWorkBuffer /\ SerialRecords /\ SerialAccounted
  BY SerialSafe DEF SerialWorkBuffer, SerialRecords, SerialAccounted
<1>2. Init => PInv /\ (~overlap => Serial)
  BY PInit, SerialInit
<1>3. PInv /\ (~overlap => Serial) /\ [Next]_vars => PInv' /\ (~overlap => Serial)'
  <2>1. [Next]_vars => overlap' = overlap
    BY DEF Next, vars
  <2> QED
    BY <2>1, PNext, SerialNext
<1> QED
  BY <1>1, <1>2, <1>3, PTL DEF Spec
=============================================================================
