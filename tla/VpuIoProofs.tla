----------------------------- MODULE VpuIoProofs -----------------------------
(***************************************************************************)
(* Safety of the library's I/O layer on the driver's pool, for any number  *)
(* of processes, any number of nested inits and any buffer sizes.          *)
(***************************************************************************)
EXTENDS VpuIo, VpuPoolProofs

\* The library's variables, without the driver's.
LibTypeOK ==
  /\ io \in [Clients -> Step]
  /\ cur \in [Clients -> Buffers \cup {"none"}]
  /\ buf \in [Clients -> [Buffers -> Desc \cup {NoMem}]]
  /\ vpu_active_num \in [Clients -> 0..MaxActive]
  /\ faults \in 0..MapFaults
  /\ gaveBack \in BOOLEAN

\* vpu_active_num by the stage of IOSystemInit.
Counted(p) ==
  /\ io[p] = "down" <=> p \notin open
  /\ io[p] \in {"down", "regs"} => vpu_active_num[p] = 0
  /\ io[p] \in {"call", "map", "unwind"} => vpu_active_num[p] = 1
  /\ io[p] = "up" => vpu_active_num[p] > 0

\* The buffers that process p has been given and has not given back.
Rank == [none |-> 0, work |-> 1, code |-> 2, para |-> 3]
Has(p, b) ==
  \/ io[p] = "up"
  \/ io[p] \in {"map", "unwind"} /\ Rank[b] <= Rank[cur[p]]
  \/ io[p] = "call" /\ Rank[b] < Rank[cur[p]]

\* Which ioctl a process can be in at each stage, and that its buffers are real.
Staged(p) ==
  /\ io[p] \in {"down", "regs"} => pc[p] = "user"
  /\ io[p] = "call" => /\ cur[p] \in Buffers
                       /\ cur[p] = "work" => pc[p] \in {"user", "work", "workalloc"}
                       /\ cur[p] # "work" => pc[p] \in {"user", "record"}
  /\ io[p] = "map" => cur[p] \in Buffers /\ pc[p] = "user"
  /\ io[p] = "unwind" => /\ cur[p] \in {"none", "work", "code"}
                         /\ pc[p] \in {"user", "unlist"}
                         /\ cur[p] = "none" => pc[p] = "user"
  /\ io[p] = "up" => pc[p] \in {"user", "record", "unlist"}
  /\ \A b \in Buffers : Has(p, b) => buf[p][b] \in Desc

\* While nobody gave the working buffer back, a process that has it has the driver's,
\* and its other buffers are its own until it frees them.
Equipped(p) ==
  /\ Has(p, "work") => buf[p]["work"] = bitwork_mem
  /\ \A b \in {"code", "para"} : Has(p, b) =>
       buf[p][b] \in held[p] \/ (io[p] = "unwind" /\ cur[p] = b /\ pc[p] = "unlist")
  /\ Has(p, "para") => buf[p]["code"] # buf[p]["para"]
  /\ io[p] = "unwind" /\ pc[p] = "unlist" => cur[p] = "code"

\* The inductive invariant: the first part always, the second while ioctls do not
\* overlap and nobody gave the working buffer back.
IoBase == Base /\ LibTypeOK /\ \A p \in Clients : Counted(p) /\ Staged(p)
Intact == PInv /\ Serial /\ \A p \in Clients : Equipped(p)

-----------------------------------------------------------------------------
\* A step of process p leaves what the others see of themselves alone.
Apart(p) ==
  \A q \in Clients \ {p} :
    /\ io'[q] = io[q] /\ cur'[q] = cur[q] /\ buf'[q] = buf[q]
    /\ vpu_active_num'[q] = vpu_active_num[q]
    /\ pc'[q] = pc[q] /\ held'[q] = held[q] /\ (q \in open' <=> q \in open)

\* The order of the stages of IOSystemInit.
LEMMA RankValues ==
  Rank["none"] = 0 /\ Rank["work"] = 1 /\ Rank["code"] = 2 /\ Rank["para"] = 3
BY DEF Rank

\* So only p itself is to be looked at.
LEMMA OthersBase ==
  ASSUME IoBase, NEW p \in Clients, Apart(p), Base', LibTypeOK', Counted(p)', Staged(p)'
  PROVE  IoBase'
<1>1. ASSUME NEW q \in Clients \ {p} PROVE Counted(q)' /\ Staged(q)'
  <2>1. Counted(q) /\ Staged(q)
    BY DEF IoBase
  <2>2. \A b : Has(q, b)' <=> Has(q, b)
    BY DEF Apart, Has
  <2>3. Counted(q)'
    BY <2>1 DEF Apart, Counted
  <2>4. Staged(q)'
    BY <2>1, <2>2 DEF Apart, Staged
  <2> QED
    BY <2>3, <2>4
<1> QED
  BY <1>1 DEF IoBase

\* A step of one process leaves the others' buffers alone.
LEMMA OthersIntact ==
  ASSUME IoBase, Intact, NEW p \in Clients, Apart(p), PInv', Serial', Equipped(p)',
         bitwork_mem' = bitwork_mem \/ bitwork_mem = NoMem
  PROVE  Intact'
<1>1. ASSUME NEW q \in Clients \ {p} PROVE Equipped(q)'
  <2>1. Equipped(q) /\ Staged(q)
    BY DEF IoBase, Intact
  <2>2. \A b : Has(q, b)' <=> Has(q, b)
    BY DEF Apart, Has
  <2>3. Has(q, "work") => bitwork_mem \in Desc
    BY <2>1 DEF Equipped, Staged, Buffers
  <2>4. Has(q, "work") => bitwork_mem' = bitwork_mem
    BY <2>3, NoMemIsNoDesc
  <2> QED
    BY <2>1, <2>2, <2>4 DEF Apart, Equipped
<1> QED
  BY <1>1 DEF Intact

\* A step of the library alone.
LEMMA IdleDriver ==
  ASSUME Base, UNCHANGED vars PROVE Base' /\ (PInv => PInv') /\ (PInv /\ Serial /\ ~overlap => Serial')
<1>1. Base'
  BY DEF Base, vars, TypeOK, CountExact, ClosedIdle
<1>2. (PInv => PInv') /\ (PInv /\ Serial /\ ~overlap => Serial')
  BY PNext, SerialNext
<1> QED
  BY <1>1, <1>2

\* The call or the mapping of a buffer succeeded.
LEMMA GotFacts ==
  ASSUME LibTypeOK, NEW p \in Clients, cur[p] \in Buffers, NEW d \in Desc, Got(p, d)
  PROVE  /\ LibTypeOK' /\ io'[p] = "map" /\ cur' = cur /\ vpu_active_num' = vpu_active_num
         /\ gaveBack' = gaveBack
         /\ buf'[p][cur[p]] = d /\ \A b \in Buffers \ {cur[p]} : buf'[p][b] = buf[p][b]
         /\ \A q \in Clients \ {p} : io'[q] = io[q] /\ buf'[q] = buf[q]
<1>1. buf' = [buf EXCEPT ![p][cur[p]] = d] /\ io' = [io EXCEPT ![p] = "map"]
      /\ UNCHANGED <<cur, vpu_active_num, faults, gaveBack>>
  BY DEF Got
<1>2. buf' \in [Clients -> [Buffers -> Desc \cup {NoMem}]]
  BY <1>1 DEF LibTypeOK
<1>3. io' \in [Clients -> Step] /\ io'[p] = "map"
  BY <1>1 DEF LibTypeOK, Step
<1>4. /\ buf'[p][cur[p]] = d /\ \A b \in Buffers \ {cur[p]} : buf'[p][b] = buf[p][b]
      /\ \A q \in Clients \ {p} : io'[q] = io[q] /\ buf'[q] = buf[q]
  BY <1>1 DEF LibTypeOK
<1> QED
  BY <1>1, <1>2, <1>3, <1>4 DEF LibTypeOK

\* It failed.
LEMMA FailedFacts ==
  ASSUME LibTypeOK, NEW p \in Clients, cur[p] \in Buffers, NEW b, Failed(p, b), faults' \in 0..MapFaults,
         b \in [Clients -> [Buffers -> Desc \cup {NoMem}]],
         \A q \in Clients \ {p} : b[q] = buf[q],
         \A n \in Buffers \ {cur[p]} : b[p][n] = buf[p][n]
  PROVE  /\ LibTypeOK' /\ io'[p] = "unwind" /\ cur'[p] = OnError[cur[p]]
         /\ vpu_active_num' = vpu_active_num /\ gaveBack' = gaveBack
         /\ \A n \in Buffers \ {cur[p]} : buf'[p][n] = buf[p][n]
         /\ \A q \in Clients \ {p} : io'[q] = io[q] /\ cur'[q] = cur[q] /\ buf'[q] = buf[q]
<1>1. buf' = b /\ io' = [io EXCEPT ![p] = "unwind"] /\ cur' = [cur EXCEPT ![p] = OnError[cur[p]]]
      /\ UNCHANGED <<vpu_active_num, gaveBack>>
  BY DEF Failed
<1>2. OnError[cur[p]] \in Buffers \cup {"none"}
  BY DEF OnError, Buffers
<1>3. /\ io' \in [Clients -> Step] /\ io'[p] = "unwind"
      /\ cur' \in [Clients -> Buffers \cup {"none"}] /\ cur'[p] = OnError[cur[p]]
      /\ \A q \in Clients \ {p} : io'[q] = io[q] /\ cur'[q] = cur[q]
  BY <1>1, <1>2 DEF LibTypeOK, Step
<1> QED
  BY <1>1, <1>3 DEF LibTypeOK

\* What p has after it got the buffer it asked for, and after a failure.
LEMMA StageGot ==
  ASSUME LibTypeOK, NEW p \in Clients, Staged(p), io[p] = "call", NEW d \in Desc, Got(p, d), pc'[p] = "user"
  PROVE  Staged(p)'
<1>1. cur[p] \in Buffers
  BY DEF Staged
<1>2. /\ io'[p] = "map" /\ cur' = cur
      /\ buf'[p][cur[p]] = d /\ \A b \in Buffers \ {cur[p]} : buf'[p][b] = buf[p][b]
  BY <1>1, GotFacts
<1>3. ASSUME NEW b \in Buffers, Has(p, b)' PROVE b = cur[p] \/ Has(p, b)
  BY <1>1, <1>2, <1>3, RankValues DEF Has, Buffers
<1>4. \A b \in Buffers : Has(p, b)' => buf'[p][b] \in Desc
  BY <1>2, <1>3 DEF Staged
<1> QED
  BY <1>1, <1>2, <1>4 DEF Staged

\* A stage that fails is followed by the unwinding of what came before.
LEMMA StageFailed ==
  ASSUME NEW p \in Clients, Staged(p), io[p] \in {"call", "map"}, cur[p] \in Buffers,
         io'[p] = "unwind", cur'[p] = OnError[cur[p]], pc'[p] = "user",
         \A n \in Buffers \ {cur[p]} : buf'[p][n] = buf[p][n]
  PROVE  Staged(p)'
<1>1. cur'[p] \in {"none", "work", "code"}
  BY DEF OnError, Buffers
<1>2. ASSUME NEW b \in Buffers, Has(p, b)' PROVE b # cur[p] /\ Has(p, b)
  BY <1>2, RankValues DEF Has, Buffers, OnError
<1>3. \A b \in Buffers : Has(p, b)' => buf'[p][b] \in Desc
  BY <1>2 DEF Staged
<1> QED
  BY <1>1, <1>3 DEF Staged

-----------------------------------------------------------------------------
\* One lemma per action: it preserves what always holds.

\* IoBase, step by step: a nested IOSystemInit,
LEMMA InitAgainBase ==
  ASSUME IoBase, NEW p \in Clients, InitAgain(p) PROVE IoBase' /\ Apart(p)
<1>1. /\ io[p] = "up" /\ vpu_active_num[p] < MaxActive
      /\ vpu_active_num' = [vpu_active_num EXCEPT ![p] = @ + 1]
      /\ UNCHANGED <<vars, io, cur, buf, faults, gaveBack>>
  BY DEF InitAgain
<1>2. Base' /\ UNCHANGED <<pc, held, open>>
  BY <1>1, IdleDriver DEF IoBase, vars
<1>3. LibTypeOK' /\ vpu_active_num'[p] = vpu_active_num[p] + 1
  BY <1>1, IoConstants DEF IoBase, LibTypeOK
<1>4. Apart(p)
  BY <1>1, <1>2 DEF Apart, IoBase, LibTypeOK
<1>5. Counted(p)'
  BY <1>1, <1>2, <1>3 DEF IoBase, Counted, LibTypeOK
<1>6. Staged(p)'
  BY <1>1, <1>2 DEF IoBase, Staged, Has
<1> QED
  BY <1>2, <1>3, <1>4, <1>5, <1>6, OthersBase

\* the open of the device,
LEMMA InitOpenBase ==
  ASSUME IoBase, UNCHANGED overlap, NEW p \in Clients, InitOpen(p) PROVE IoBase' /\ Apart(p)
<1>1. /\ io[p] = "down" /\ vpu_open(p) /\ io' = [io EXCEPT ![p] = "regs"]
      /\ UNCHANGED <<cur, buf, vpu_active_num, faults, gaveBack>>
  BY DEF InitOpen
<1>2. Base' /\ open' = open \cup {p} /\ pc' = pc /\ held' = held
  BY <1>1, OpenBase DEF IoBase, vpu_open
<1>3. LibTypeOK' /\ io'[p] = "regs"
  BY <1>1 DEF IoBase, LibTypeOK, Step
<1>4. Apart(p)
  BY <1>1, <1>2 DEF Apart, IoBase, LibTypeOK
<1>5. Counted(p)' /\ Staged(p)'
  BY <1>1, <1>2, <1>3 DEF IoBase, Counted, Staged, Has
<1> QED
  BY <1>2, <1>3, <1>4, <1>5, OthersBase

\* the registers are mapped,
LEMMA InitRegsBase ==
  ASSUME IoBase, NEW p \in Clients, InitRegs(p) PROVE IoBase' /\ Apart(p)
<1>1. /\ io[p] = "regs" /\ vpu_active_num' = [vpu_active_num EXCEPT ![p] = @ + 1]
      /\ io' = [io EXCEPT ![p] = "call"] /\ cur' = [cur EXCEPT ![p] = "work"]
      /\ UNCHANGED <<vars, buf, faults, gaveBack>>
  BY DEF InitRegs
<1>2. Base' /\ UNCHANGED <<pc, held, open>>
  BY <1>1, IdleDriver DEF IoBase, vars
<1>3. vpu_active_num[p] = 0 /\ pc[p] = "user" /\ p \in open
  BY <1>1 DEF IoBase, Counted, Staged
<1>4. LibTypeOK' /\ vpu_active_num'[p] = 1 /\ io'[p] = "call" /\ cur'[p] = "work"
  BY <1>1, <1>3, IoConstants DEF IoBase, LibTypeOK, Step, Buffers
<1>5. Apart(p)
  BY <1>1, <1>2 DEF Apart, IoBase, LibTypeOK
<1>6. \A b \in Buffers : ~Has(p, b)'
  BY <1>4, RankValues DEF Has, Buffers
<1>7. Counted(p)' /\ Staged(p)'
  BY <1>2, <1>3, <1>4, <1>6 DEF Counted, Staged, Buffers
<1> QED
  BY <1>2, <1>4, <1>5, <1>7, OthersBase

\* A close, however the library gets to it.
LEMMA CloseBase ==
  ASSUME IoBase, UNCHANGED overlap, NEW p \in Clients, vpu_release(p), LibTypeOK',
         io'[p] = "down", vpu_active_num'[p] = 0,
         \A q \in Clients \ {p} : /\ io'[q] = io[q] /\ cur'[q] = cur[q] /\ buf'[q] = buf[q]
                                  /\ vpu_active_num'[q] = vpu_active_num[q]
  PROVE  IoBase' /\ Apart(p)
<1>1. /\ Base' /\ pc[p] = "user" /\ open' = open \ {p} /\ pc' = pc
      /\ \A q \in Clients \ {p} : held'[q] = held[q]
  BY ReleaseBase DEF IoBase, Base, TypeOK, vpu_release
<1>2. Apart(p)
  BY <1>1 DEF Apart
<1>3. Counted(p)' /\ Staged(p)'
  BY <1>1 DEF Counted, Staged, Has
<1> QED
  BY <1>1, <1>2, <1>3, OthersBase

\* or not,
LEMMA InitRegsFailBase ==
  ASSUME IoBase, UNCHANGED overlap, NEW p \in Clients, InitRegsFail(p) PROVE IoBase' /\ Apart(p)
<1>1. /\ io[p] = "regs" /\ vpu_release(p) /\ io' = [io EXCEPT ![p] = "down"]
      /\ UNCHANGED <<cur, buf, vpu_active_num, gaveBack>> /\ faults < MapFaults /\ faults' = faults + 1
  BY DEF InitRegsFail
<1>2. LibTypeOK' /\ io'[p] = "down" /\ vpu_active_num'[p] = 0
  BY <1>1, IoConstants DEF IoBase, LibTypeOK, Step, Counted
<1>3. \A q \in Clients \ {p} : /\ io'[q] = io[q] /\ cur'[q] = cur[q] /\ buf'[q] = buf[q]
                               /\ vpu_active_num'[q] = vpu_active_num[q]
  BY <1>1 DEF IoBase, LibTypeOK
<1> QED
  BY <1>1, <1>2, <1>3, CloseBase

\* IOSystemShutdown, which closes only for the last user,
LEMMA ShutdownBase ==
  ASSUME IoBase, UNCHANGED overlap, NEW p \in Clients, Shutdown(p) PROVE IoBase' /\ Apart(p)
<1>1. /\ io[p] = "up" \/ (io[p] = "unwind" /\ cur[p] = "none")
      /\ vpu_active_num' = [vpu_active_num EXCEPT ![p] = @ - 1]
      /\ UNCHANGED <<cur, buf, faults, gaveBack>>
  BY DEF Shutdown
<1>2. vpu_active_num[p] \in 1..MaxActive /\ p \in open
  BY <1>1, IoConstants DEF IoBase, LibTypeOK, Counted
<1>3. /\ vpu_active_num' \in [Clients -> 0..MaxActive] /\ vpu_active_num'[p] = vpu_active_num[p] - 1
      /\ \A q \in Clients \ {p} : vpu_active_num'[q] = vpu_active_num[q]
  BY <1>1, <1>2, IoConstants DEF IoBase, LibTypeOK
<1>4. CASE vpu_active_num[p] > 1
  <2>1. UNCHANGED <<vars, io>> /\ io[p] = "up"
    BY <1>1, <1>4 DEF Shutdown, IoBase, Counted
  <2>2. Base' /\ UNCHANGED <<pc, held, open>>
    BY <2>1, IdleDriver DEF IoBase, vars
  <2>3. LibTypeOK' /\ Apart(p)
    BY <1>1, <1>3, <2>1, <2>2 DEF Apart, IoBase, LibTypeOK
  <2>4. Counted(p)'
    BY <1>2, <1>3, <1>4, <2>1, <2>2 DEF Counted
  <2>5. Staged(p)'
    BY <1>1, <2>1, <2>2 DEF IoBase, Staged, Has
  <2> QED
    BY <2>2, <2>3, <2>4, <2>5, OthersBase
<1>5. CASE ~(vpu_active_num[p] > 1)
  <2>1. vpu_release(p) /\ io' = [io EXCEPT ![p] = "down"]
    BY <1>5 DEF Shutdown
  <2>2. io'[p] = "down" /\ vpu_active_num'[p] = 0 /\ LibTypeOK'
    BY <1>1, <1>2, <1>3, <1>5, <2>1 DEF IoBase, LibTypeOK, Step
  <2>3. \A q \in Clients \ {p} : /\ io'[q] = io[q] /\ cur'[q] = cur[q] /\ buf'[q] = buf[q]
                                 /\ vpu_active_num'[q] = vpu_active_num[q]
    BY <1>1, <1>3, <2>1 DEF IoBase, LibTypeOK
  <2> QED
    BY <2>1, <2>2, <2>3, CloseBase
<1> QED
  BY <1>4, <1>5

\* a process is killed,
LEMMA KillBase ==
  ASSUME IoBase, UNCHANGED overlap, NEW p \in Clients, Kill(p) PROVE IoBase' /\ Apart(p)
<1>1. /\ vpu_release(p) /\ io' = [io EXCEPT ![p] = "down"] /\ cur' = [cur EXCEPT ![p] = "none"]
      /\ buf' = [buf EXCEPT ![p] = NoBuf] /\ vpu_active_num' = [vpu_active_num EXCEPT ![p] = 0]
      /\ UNCHANGED <<faults, gaveBack>>
  BY DEF Kill
<1>2. NoBuf \in [Buffers -> Desc \cup {NoMem}]
  BY DEF NoBuf
<1>3. LibTypeOK' /\ io'[p] = "down" /\ vpu_active_num'[p] = 0
  BY <1>1, <1>2, IoConstants DEF IoBase, LibTypeOK, Step
<1>4. \A q \in Clients \ {p} : /\ io'[q] = io[q] /\ cur'[q] = cur[q] /\ buf'[q] = buf[q]
                               /\ vpu_active_num'[q] = vpu_active_num[q]
  BY <1>1 DEF IoBase, LibTypeOK
<1> QED
  BY <1>1, <1>3, <1>4, CloseBase

\* The cases of the calls that get a buffer.
LEMMA GotBase ==
  ASSUME IoBase, NEW p \in Clients, io[p] = "call", NEW d \in Desc, Got(p, d), Base',
         pc'[p] = "user", open' = open,
         \A q \in Clients \ {p} : pc'[q] = pc[q] /\ held'[q] = held[q]
  PROVE  IoBase' /\ Apart(p)
<1>1. LibTypeOK /\ cur[p] \in Buffers /\ Staged(p) /\ Counted(p)
  BY DEF IoBase, Staged
<1>2. /\ LibTypeOK' /\ io'[p] = "map" /\ cur' = cur /\ vpu_active_num' = vpu_active_num
      /\ \A q \in Clients \ {p} : io'[q] = io[q] /\ buf'[q] = buf[q]
  BY <1>1, GotFacts
<1>3. Apart(p)
  BY <1>2 DEF Apart
<1>4. Counted(p)'
  BY <1>1, <1>2 DEF Counted
<1>5. Staged(p)'
  BY <1>1, StageGot
<1> QED
  BY <1>2, <1>3, <1>4, <1>5, OthersBase

\* a call or a mapping fails, which starts the unwinding,
LEMMA FailedBase ==
  ASSUME IoBase, NEW p \in Clients, io[p] \in {"call", "map"}, NEW b, Failed(p, b), Base',
         faults' \in 0..MapFaults,
         b \in [Clients -> [Buffers -> Desc \cup {NoMem}]],
         \A q \in Clients \ {p} : b[q] = buf[q],
         \A n \in Buffers \ {cur[p]} : b[p][n] = buf[p][n],
         pc'[p] = "user", open' = open,
         \A q \in Clients \ {p} : pc'[q] = pc[q] /\ held'[q] = held[q]
  PROVE  IoBase' /\ Apart(p)
<1>1. LibTypeOK /\ cur[p] \in Buffers /\ Staged(p) /\ Counted(p)
  BY DEF IoBase, Staged
<1>2. /\ LibTypeOK' /\ io'[p] = "unwind" /\ cur'[p] = OnError[cur[p]]
      /\ vpu_active_num' = vpu_active_num
      /\ \A n \in Buffers \ {cur[p]} : buf'[p][n] = buf[p][n]
      /\ \A q \in Clients \ {p} : io'[q] = io[q] /\ cur'[q] = cur[q] /\ buf'[q] = buf[q]
  BY <1>1, FailedFacts
<1>3. Apart(p)
  BY <1>2 DEF Apart
<1>4. Counted(p)'
  BY <1>1, <1>2 DEF Counted
<1>5. Staged(p)'
  BY <1>1, <1>2, StageFailed
<1> QED
  BY <1>2, <1>3, <1>4, <1>5, OthersBase

\* A step of the driver inside a call: the library waits.
LEMMA InsideBase ==
  ASSUME IoBase, NEW p \in Clients, UNCHANGED libvars, Base', open' = open,
         \A q \in Clients \ {p} : pc'[q] = pc[q] /\ held'[q] = held[q],
         io[p] \in {"call", "up", "unwind"},
         io[p] = "call" /\ cur[p] = "work" => pc'[p] \in {"user", "work", "workalloc"},
         io[p] = "call" /\ cur[p] # "work" => pc'[p] \in {"user", "record"},
         io[p] = "unwind" => pc'[p] \in {"user", "unlist"} /\ cur[p] # "none",
         io[p] = "up" => pc'[p] \in {"user", "record", "unlist"}
  PROVE  IoBase' /\ Apart(p)
<1>1. /\ io' = io /\ cur' = cur /\ buf' = buf /\ vpu_active_num' = vpu_active_num
      /\ faults' = faults /\ gaveBack' = gaveBack
  BY DEF libvars
<1>2. LibTypeOK' /\ Apart(p)
  BY <1>1 DEF IoBase, LibTypeOK, Apart
<1>3. Counted(p)'
  BY <1>1 DEF IoBase, Counted
<1>4. \A b \in Buffers : Has(p, b)' <=> Has(p, b)
  BY <1>1 DEF Has
<1>5. Staged(p)'
  BY <1>1, <1>4 DEF IoBase, Staged
<1> QED
  BY <1>2, <1>3, <1>5, OthersBase

\* IOGetWorkMem's ioctl,
LEMMA CallWorkBase ==
  ASSUME IoBase, UNCHANGED overlap, NEW p \in Clients, CallWork(p) PROVE IoBase' /\ Apart(p)
<1>1. io[p] = "call" /\ cur[p] = "work"
  BY DEF CallWork
<1>2. Base /\ TypeOK /\ LibTypeOK
  BY DEF IoBase, Base
<1>3. CASE Enters(p) /\ bitwork_mem # NoMem /\ Got(p, bitwork_mem) /\ UNCHANGED vars
  <2>1. bitwork_mem \in Desc /\ pc[p] = "user"
    BY <1>2, <1>3 DEF TypeOK, Enters
  <2>2. Base' /\ UNCHANGED <<pc, held, open>>
    BY <1>2, <1>3, IdleDriver DEF vars
  <2> QED
    BY <1>1, <1>3, <2>1, <2>2, GotBase
<1>4. ASSUME GetWorkAddr(p) \/ WorkCopyIn(p) \/ WorkAlloc(p) \/ WorkFail(p)
      PROVE  /\ Base' /\ pc'[p] \in {"user", "work", "workalloc"} /\ open' = open
             /\ \A q \in Clients \ {p} : pc'[q] = pc[q] /\ held'[q] = held[q]
  <2>1. /\ Base' /\ UNCHANGED <<open, held>>
        /\ \E s \in {"user", "work", "workalloc"} : pc' = [pc EXCEPT ![p] = s]
    BY <1>2, <1>4, WorkBase
  <2> QED
    BY <1>2, <2>1 DEF TypeOK
<1>5. CASE (GetWorkAddr(p) \/ WorkCopyIn(p)) /\ UNCHANGED libvars
  BY <1>1, <1>4, <1>5, InsideBase
<1>6. CASE WorkAlloc(p) /\ Got(p, bitwork_mem')
  <2>1. bitwork_mem' \in Desc
    BY <1>6, FirstFitFree DEF WorkAlloc
  <2>2. pc'[p] = "user"
    BY <1>2, <1>6 DEF WorkAlloc, TypeOK
  <2> QED
    BY <1>1, <1>4, <1>6, <2>1, <2>2, GotBase
<1>7. CASE WorkFail(p) /\ Failed(p, [buf EXCEPT ![p].work = NoMem]) /\ UNCHANGED faults
  <2>1. PICK b : b = [buf EXCEPT ![p].work = NoMem]
    OBVIOUS
  <2>2. /\ b \in [Clients -> [Buffers -> Desc \cup {NoMem}]]
        /\ \A q \in Clients \ {p} : b[q] = buf[q]
        /\ \A n \in Buffers \ {"work"} : b[p][n] = buf[p][n]
    BY <1>2, <2>1 DEF LibTypeOK, Buffers
  <2>3. pc'[p] = "user" /\ faults' \in 0..MapFaults
    BY <1>2, <1>7 DEF WorkFail, TypeOK, LibTypeOK
  <2> QED
    BY <1>1, <1>4, <1>7, <2>1, <2>2, <2>3, FailedBase
<1> QED
  BY <1>3, <1>5, <1>6, <1>7 DEF CallWork

\* IOGetPhyMem's,
LEMMA CallAllocBase ==
  ASSUME IoBase, UNCHANGED overlap, NEW p \in Clients, CallAlloc(p) PROVE IoBase' /\ Apart(p)
<1>1. io[p] = "call" /\ cur[p] # "work" /\ cur[p] \in Buffers
  BY DEF CallAlloc, IoBase, Staged
<1>2. Base /\ TypeOK /\ LibTypeOK
  BY DEF IoBase, Base
<1>3. CASE PhymemAlloc(p, PagesOf[cur[p]]) /\ UNCHANGED libvars
  <2>1. Base'
    BY <1>2, <1>3, AllocBase
  <2>2. /\ open' = open /\ pc'[p] = "record"
        /\ \A q \in Clients \ {p} : pc'[q] = pc[q] /\ held'[q] = held[q]
    BY <1>2, <1>3 DEF PhymemAlloc, TypeOK
  <2> QED
    BY <1>1, <1>3, <2>1, <2>2, InsideBase
<1>4. CASE PhymemRecord(p) /\ Got(p, mem[p])
  <2>1. Base'
    BY <1>2, <1>4, RecordBase
  <2>2. /\ open' = open /\ pc'[p] = "user" /\ mem[p] \in Desc
        /\ \A q \in Clients \ {p} : pc'[q] = pc[q] /\ held'[q] = held[q]
    BY <1>2, <1>4 DEF PhymemRecord, TypeOK
  <2> QED
    BY <1>1, <1>4, <2>1, <2>2, GotBase
<1>5. CASE Enters(p) /\ Failed(p, [buf EXCEPT ![p][cur[p]] = NoMem]) /\ UNCHANGED <<vars, faults>>
  <2>1. PICK b : b = [buf EXCEPT ![p][cur[p]] = NoMem]
    OBVIOUS
  <2>2. /\ b \in [Clients -> [Buffers -> Desc \cup {NoMem}]]
        /\ \A q \in Clients \ {p} : b[q] = buf[q]
        /\ \A n \in Buffers \ {cur[p]} : b[p][n] = buf[p][n]
    BY <1>1, <1>2, <2>1 DEF LibTypeOK
  <2>3. /\ Base' /\ UNCHANGED <<pc, held, open>> /\ pc[p] = "user"
        /\ faults' \in 0..MapFaults
    BY <1>2, <1>5, IdleDriver DEF vars, Enters, LibTypeOK
  <2> QED
    BY <1>1, <1>5, <2>1, <2>2, <2>3, FailedBase
<1> QED
  BY <1>3, <1>4, <1>5 DEF CallAlloc

\* the buffer is mapped,
LEMMA MapBase ==
  ASSUME IoBase, NEW p \in Clients, Map(p) PROVE IoBase' /\ Apart(p)
<1>1. io[p] = "map" /\ UNCHANGED <<vars, buf, vpu_active_num, faults, gaveBack>>
  BY DEF Map
<1>2. LibTypeOK /\ cur[p] \in Buffers /\ pc[p] = "user" /\ Staged(p) /\ Counted(p)
  BY <1>1 DEF IoBase, Staged
<1>3. Base' /\ UNCHANGED <<pc, held, open>>
  BY <1>1, IdleDriver DEF IoBase, vars
<1>4. CASE cur[p] = "para"
  <2>1. io' = [io EXCEPT ![p] = "up"] /\ cur' = cur
    BY <1>4 DEF Map
  <2>2. LibTypeOK' /\ io'[p] = "up"
    BY <1>1, <1>2, <2>1 DEF LibTypeOK, Step
  <2>3. Apart(p)
    BY <1>1, <1>2, <1>3, <2>1 DEF LibTypeOK, Apart
  <2>4. \A b \in Buffers : Has(p, b)
    BY <1>1, <1>4, RankValues DEF Has, Buffers
  <2>5. Staged(p)'
    BY <1>1, <1>2, <1>3, <2>2, <2>4 DEF Staged
  <2>6. Counted(p)'
    BY <1>1, <1>2, <1>3, <2>2 DEF Counted
  <2> QED
    BY <1>3, <2>2, <2>3, <2>5, <2>6, OthersBase
<1>5. CASE cur[p] # "para"
  <2>1. io' = [io EXCEPT ![p] = "call"] /\ cur' = [cur EXCEPT ![p] = After[@]]
    BY <1>5 DEF Map
  <2>2. After[cur[p]] \in {"code", "para"} /\ Rank[After[cur[p]]] = Rank[cur[p]] + 1
    BY <1>2, <1>5, RankValues DEF After, Buffers
  <2>3. LibTypeOK' /\ io'[p] = "call" /\ cur'[p] = After[cur[p]]
    BY <1>1, <1>2, <2>1, <2>2 DEF LibTypeOK, Step, Buffers
  <2>4. Apart(p)
    BY <1>1, <1>2, <1>3, <2>1 DEF LibTypeOK, Apart
  <2>5. ASSUME NEW b \in Buffers, Has(p, b)' PROVE Has(p, b)
    <3>1. Rank[b] < Rank[cur[p]] + 1
      BY <2>2, <2>3, <2>5 DEF Has
    <3> QED
      BY <1>1, <1>2, <3>1, RankValues DEF Has, Buffers
  <2>6. Staged(p)'
    BY <1>1, <1>2, <1>3, <2>2, <2>3, <2>5 DEF Staged, Buffers
  <2>7. Counted(p)'
    BY <1>1, <1>2, <1>3, <2>3 DEF Counted
  <2> QED
    BY <1>3, <2>3, <2>4, <2>6, <2>7, OthersBase
<1> QED
  BY <1>4, <1>5

\* or not,
LEMMA MapFailBase ==
  ASSUME IoBase, NEW p \in Clients, MapFail(p) PROVE IoBase' /\ Apart(p)
<1>1. io[p] = "map" /\ UNCHANGED vars /\ faults < MapFaults /\ faults' = faults + 1 /\ Failed(p, buf)
  BY DEF MapFail
<1>2. /\ buf \in [Clients -> [Buffers -> Desc \cup {NoMem}]] /\ faults' \in 0..MapFaults
      /\ pc[p] = "user"
  BY <1>1, IoConstants DEF IoBase, LibTypeOK, Staged
<1>3. Base' /\ UNCHANGED <<pc, held, open>>
  BY <1>1, IdleDriver DEF IoBase, vars
<1> QED
  BY <1>1, <1>2, <1>3, FailedBase

\* the unwinding frees what was got,
LEMMA UnwindBase ==
  ASSUME IoBase, UNCHANGED overlap, NEW p \in Clients, Unwind(p) PROVE IoBase' /\ Apart(p)
<1>1. io[p] = "unwind" /\ cur[p] # "none"
  BY DEF Unwind
<1>2. Base /\ TypeOK /\ LibTypeOK /\ Staged(p) /\ Counted(p)
  BY DEF IoBase, Base
<1>3. cur[p] \in {"work", "code"} /\ cur[p] \in Buffers
  BY <1>1, <1>2 DEF Staged, Buffers
<1>4. buf[p][cur[p]] \in Desc
  <2>1. Has(p, cur[p])
    BY <1>1, <1>3, RankValues DEF Has
  <2> QED
    BY <1>2, <1>3, <2>1 DEF Staged
<1>5. CASE /\ PhymemFree(p, buf[p][cur[p]])
           /\ gaveBack' = (gaveBack \/ cur[p] = "work")
           /\ UNCHANGED <<io, cur, buf, vpu_active_num, faults>>
  <2>1. Base'
    BY <1>2, <1>4, <1>5, FreeBase
  <2>2. /\ open' = open /\ pc'[p] = "unlist"
        /\ \A q \in Clients \ {p} : pc'[q] = pc[q] /\ held'[q] = held[q]
    BY <1>2, <1>5 DEF PhymemFree, TypeOK
  <2>3. gaveBack' \in BOOLEAN
    BY <1>5
  <2>4. LibTypeOK' /\ Apart(p)
    BY <1>2, <1>5, <2>2, <2>3 DEF LibTypeOK, Apart
  <2>5. Counted(p)'
    BY <1>2, <1>5, <2>2 DEF Counted
  <2>6. \A b : Has(p, b)' <=> Has(p, b)
    BY <1>5 DEF Has
  <2>7. Staged(p)'
    BY <1>1, <1>2, <1>5, <2>2, <2>6 DEF Staged
  <2> QED
    BY <2>1, <2>4, <2>5, <2>7, OthersBase
<1>6. CASE /\ PhymemUnlist(p)
           /\ buf' = [buf EXCEPT ![p][cur[p]] = NoMem]
           /\ cur' = [cur EXCEPT ![p] = OnError[@]]
           /\ UNCHANGED <<io, vpu_active_num, faults, gaveBack>>
  <2>1. Base'
    BY <1>2, <1>6, UnlistBase
  <2>2. /\ open' = open /\ pc'[p] = "user"
        /\ \A q \in Clients \ {p} : pc'[q] = pc[q] /\ held'[q] = held[q]
    BY <1>2, <1>6 DEF PhymemUnlist, TypeOK
  <2>3. OnError[cur[p]] \in {"none", "work"} /\ Rank[OnError[cur[p]]] < Rank[cur[p]]
    BY <1>3, RankValues DEF OnError
  <2>4. buf' \in [Clients -> [Buffers -> Desc \cup {NoMem}]]
    BY <1>2, <1>3, <1>6 DEF LibTypeOK
  <2>5. /\ cur' \in [Clients -> Buffers \cup {"none"}] /\ cur'[p] = OnError[cur[p]]
        /\ \A n \in Buffers \ {cur[p]} : buf'[p][n] = buf[p][n]
        /\ \A q \in Clients \ {p} : cur'[q] = cur[q] /\ buf'[q] = buf[q]
    BY <1>2, <1>3, <1>6, <2>3 DEF LibTypeOK, Buffers
  <2>6. LibTypeOK' /\ Apart(p)
    BY <1>2, <1>6, <2>2, <2>4, <2>5 DEF LibTypeOK, Apart
  <2>7. Counted(p)'
    BY <1>2, <1>6, <2>2 DEF Counted
  <2>8. ASSUME NEW b \in Buffers, Has(p, b)' PROVE b # cur[p] /\ Has(p, b)
    BY <1>1, <1>3, <1>6, <2>3, <2>5, <2>8, RankValues DEF Has, Buffers
  <2>9. Staged(p)'
    BY <1>1, <1>2, <1>6, <2>2, <2>3, <2>5, <2>8 DEF Staged
  <2> QED
    BY <2>1, <2>6, <2>7, <2>9, OthersBase
<1> QED
  BY <1>5, <1>6 DEF Unwind

\* and the application gets and frees buffers of its own.
LEMMA AppBase ==
  ASSUME IoBase, UNCHANGED overlap, NEW p \in Clients, AppAlloc(p) \/ AppFree(p)
  PROVE  IoBase' /\ Apart(p)
<1>1. io[p] = "up" /\ UNCHANGED libvars
  BY DEF AppAlloc, AppFree
<1>2. Base /\ TypeOK
  BY DEF IoBase, Base
<1>3. CASE \E n \in AppSizes : PhymemAlloc(p, n)
  <2>1. Base'
    BY <1>2, <1>3, AllocBase
  <2>2. /\ open' = open /\ pc'[p] = "record"
        /\ \A q \in Clients \ {p} : pc'[q] = pc[q] /\ held'[q] = held[q]
    BY <1>2, <1>3 DEF PhymemAlloc, TypeOK
  <2> QED
    BY <1>1, <2>1, <2>2, InsideBase
<1>4. CASE PhymemRecord(p)
  <2>1. Base'
    BY <1>2, <1>4, RecordBase
  <2>2. /\ open' = open /\ pc'[p] = "user"
        /\ \A q \in Clients \ {p} : pc'[q] = pc[q] /\ held'[q] = held[q]
    BY <1>2, <1>4 DEF PhymemRecord, TypeOK
  <2> QED
    BY <1>1, <2>1, <2>2, InsideBase
<1>5. CASE \E d \in held[p] : PhymemFree(p, d)
  <2>1. PICK d \in held[p] : PhymemFree(p, d)
    BY <1>5
  <2>2. d \in Desc
    BY <1>2 DEF TypeOK
  <2>3. Base'
    BY <1>2, <2>1, <2>2, FreeBase
  <2>4. /\ open' = open /\ pc'[p] = "unlist"
        /\ \A q \in Clients \ {p} : pc'[q] = pc[q] /\ held'[q] = held[q]
    BY <1>2, <2>1 DEF PhymemFree, TypeOK
  <2> QED
    BY <1>1, <2>3, <2>4, InsideBase
<1>6. CASE PhymemUnlist(p)
  <2>1. Base'
    BY <1>2, <1>6, UnlistBase
  <2>2. /\ open' = open /\ pc'[p] = "user"
        /\ \A q \in Clients \ {p} : pc'[q] = pc[q] /\ held'[q] = held[q]
    BY <1>2, <1>6 DEF PhymemUnlist, TypeOK
  <2> QED
    BY <1>1, <2>1, <2>2, InsideBase
<1> QED
  BY <1>3, <1>4, <1>5, <1>6 DEF AppAlloc, AppFree

\* IoBase holds at first,
LEMMA IoBaseInit == IoInit => IoBase
<1> SUFFICES ASSUME IoInit PROVE IoBase
  OBVIOUS
<1>1. Base
  BY PInit DEF IoInit, PInv
<1>2. NoBuf \in [Buffers -> Desc \cup {NoMem}]
  BY DEF NoBuf
<1>3. LibTypeOK
  <2>1. buf \in [Clients -> [Buffers -> Desc \cup {NoMem}]]
    BY <1>2 DEF IoInit
  <2>2. io \in [Clients -> Step] /\ cur \in [Clients -> Buffers \cup {"none"}]
    BY DEF IoInit, Step
  <2>3. vpu_active_num \in [Clients -> 0..MaxActive] /\ faults \in 0..MapFaults
    BY IoConstants DEF IoInit
  <2> QED
    BY <2>1, <2>2, <2>3 DEF IoInit, LibTypeOK
<1>4. \A p \in Clients : Counted(p) /\ Staged(p)
  BY DEF IoInit, Init, Counted, Staged, Has
<1> QED
  BY <1>1, <1>3, <1>4 DEF IoBase

\* The steps of a process.
LibStep(p) ==
  \/ InitAgain(p) \/ InitOpen(p) \/ InitRegs(p) \/ InitRegsFail(p)
  \/ CallWork(p) \/ CallAlloc(p) \/ Map(p) \/ MapFail(p) \/ Unwind(p)
  \/ Shutdown(p) \/ AppAlloc(p) \/ AppFree(p) \/ Kill(p)

\* after every step of the library,
LEMMA LibStepBase ==
  ASSUME IoBase, UNCHANGED overlap, NEW p \in Clients, LibStep(p) PROVE IoBase' /\ Apart(p)
BY InitAgainBase, InitOpenBase, InitRegsBase, InitRegsFailBase, CallWorkBase, CallAllocBase,
   MapBase, MapFailBase, UnwindBase, ShutdownBase, AppBase, KillBase DEF LibStep

\* A step is one of the library, with the ioctl it makes, or none,
LEMMA IoNextSteps == [IoNext]_iovars =>
  UNCHANGED iovars \/ (UNCHANGED overlap /\ \E p \in Clients : LibStep(p))
BY DEF IoNext, LibStep

\* and each keeps IoBase.
LEMMA IoBaseNext == IoBase /\ [IoNext]_iovars => IoBase'
<1> SUFFICES ASSUME IoBase, [IoNext]_iovars PROVE IoBase'
  OBVIOUS
<1>1. CASE UNCHANGED iovars
  <2>1. UNCHANGED vars /\ UNCHANGED libvars /\ UNCHANGED <<pc, open>>
    BY <1>1 DEF iovars, vars
  <2>2. Base' /\ LibTypeOK'
    BY <2>1, IdleDriver DEF IoBase, LibTypeOK, libvars
  <2>3. ASSUME NEW p \in Clients PROVE Counted(p)' /\ Staged(p)'
    BY <2>1 DEF IoBase, Counted, Staged, Has, libvars
  <2> QED
    BY <2>2, <2>3 DEF IoBase
<1>2. ASSUME UNCHANGED overlap, NEW p \in Clients, LibStep(p) PROVE IoBase'
  BY <1>2, LibStepBase
<1> QED
  BY <1>1, <1>2, IoNextSteps

\* However many processes initialise, fail, shut down and are killed, and however their
\* ioctls overlap, the state is well typed and a process has the device open exactly
\* while it counts users of it.
THEOREM IoSafe == IoSpec => [](IoTypeOK /\ CountMatchesOpen)
<1>1. IoBase => IoTypeOK
  BY DEF IoBase, Base, LibTypeOK, IoTypeOK
<1>2. IoBase => CountMatchesOpen
  <2> SUFFICES ASSUME IoBase, NEW p \in Clients
               PROVE  /\ vpu_active_num[p] > 0 => p \in open
                      /\ io[p] = "down" <=> p \notin open
                      /\ io[p] = "down" => vpu_active_num[p] = 0
    BY DEF CountMatchesOpen
  <2> QED
    BY DEF IoBase, Counted, LibTypeOK
<1> QED
  BY <1>1, <1>2, IoBaseInit, IoBaseNext, PTL DEF IoSpec

-----------------------------------------------------------------------------
\* The buffers, while ioctls do not overlap and nobody gave the working buffer back.

\* Equipped: a process after it got a buffer,
LEMMA EquipGot ==
  ASSUME LibTypeOK, NEW p \in Clients, Staged(p), Equipped(p), io[p] = "call", NEW d \in Desc,
         Got(p, d),
         cur[p] = "work" => bitwork_mem' = d,
         cur[p] # "work" => /\ bitwork_mem' = bitwork_mem /\ d \notin held[p]
                            /\ held'[p] = held[p] \cup {d}
  PROVE  Equipped(p)'
<1>1. cur[p] \in Buffers
  BY DEF Staged
<1>2. /\ io'[p] = "map" /\ cur' = cur
      /\ buf'[p][cur[p]] = d /\ \A b \in Buffers \ {cur[p]} : buf'[p][b] = buf[p][b]
  BY <1>1, GotFacts
<1>3. CASE cur[p] = "work"
  <2>1. ~Has(p, "code")' /\ ~Has(p, "para")'
    BY <1>2, <1>3, RankValues DEF Has
  <2> QED
    BY <1>2, <1>3, <2>1 DEF Equipped
<1>4. CASE cur[p] = "code"
  <2>1. ~Has(p, "para")' /\ Has(p, "work")
    BY <1>2, <1>4, RankValues DEF Has
  <2>2. buf'[p]["work"] = bitwork_mem' /\ buf'[p]["code"] \in held'[p]
    BY <1>2, <1>4, <2>1 DEF Equipped, Buffers
  <2> QED
    BY <1>2, <2>1, <2>2 DEF Equipped
<1>5. CASE cur[p] = "para"
  <2>1. Has(p, "work") /\ Has(p, "code")
    BY <1>5, RankValues DEF Has
  <2>2. /\ buf'[p]["work"] = bitwork_mem' /\ buf[p]["code"] \in held[p]
        /\ buf'[p]["code"] = buf[p]["code"] /\ buf'[p]["para"] = d
    BY <1>2, <1>5, <2>1 DEF Equipped, Buffers
  <2> QED
    BY <1>2, <1>5, <2>2 DEF Equipped
<1> QED
  BY <1>1, <1>3, <1>4, <1>5 DEF Buffers

\* and after a stage failed.
LEMMA EquipFailed ==
  ASSUME NEW p \in Clients, Equipped(p), io[p] \in {"call", "map"}, cur[p] \in Buffers,
         io'[p] = "unwind", cur'[p] = OnError[cur[p]], pc'[p] = "user", held'[p] = held[p],
         bitwork_mem' = bitwork_mem \/ cur[p] = "work",
         \A n \in Buffers \ {cur[p]} : buf'[p][n] = buf[p][n]
  PROVE  Equipped(p)'
<1>1. ASSUME NEW b \in Buffers, Has(p, b)' PROVE b # cur[p] /\ Has(p, b) /\ cur[p] # "work"
  BY <1>1, RankValues DEF Has, Buffers, OnError
<1>2. ~Has(p, "para")'
  BY RankValues DEF Has, Buffers, OnError
<1>3. Has(p, "work")' => buf'[p]["work"] = bitwork_mem'
  BY <1>1 DEF Equipped, Buffers
<1>4. Has(p, "code")' => buf'[p]["code"] \in held'[p]
  BY <1>1 DEF Equipped, Buffers
<1> QED
  BY <1>2, <1>3, <1>4 DEF Equipped

\* A close takes all of p's buffers.
LEMMA CloseIntact ==
  ASSUME IoBase, Intact, ~overlap, UNCHANGED overlap, NEW p \in Clients, vpu_release(p), Apart(p),
         io'[p] = "down"
  PROVE  Intact'
<1>1. PInv' /\ Serial'
  BY ReleaseInv, SerialRelease DEF Intact
<1>2. Equipped(p)'
  BY DEF Equipped, Has
<1> QED
  BY <1>1, <1>2, OthersIntact DEF vpu_release

\* The steps of the library that the driver does not see.
LEMMA QuietIntact ==
  ASSUME IoBase, Intact, ~overlap, NEW p \in Clients, Apart(p), UNCHANGED vars, Equipped(p)'
  PROVE  Intact'
<1>1. PInv' /\ Serial'
  BY IdleDriver DEF IoBase, Intact
<1> QED
  BY <1>1, OthersIntact DEF vars

\* Intact, step by step: the start of IOSystemInit,
LEMMA StartIntact ==
  ASSUME IoBase, Intact, ~overlap, UNCHANGED overlap, NEW p \in Clients, Apart(p),
         InitAgain(p) \/ InitOpen(p) \/ InitRegs(p) \/ InitRegsFail(p)
  PROVE  Intact'
<1>1. LibTypeOK /\ Equipped(p) /\ PInv /\ Serial
  BY DEF IoBase, Intact
<1>2. CASE InitAgain(p)
  <2>1. UNCHANGED vars /\ UNCHANGED <<io, cur, buf, pc, held, bitwork_mem>>
    BY <1>2 DEF InitAgain, vars
  <2>2. Equipped(p)'
    BY <1>1, <2>1 DEF Equipped, Has
  <2> QED
    BY <2>1, <2>2, QuietIntact
<1>3. CASE InitOpen(p)
  <2>1. PInv' /\ Serial'
    BY <1>1, <1>3, OpenInv, SerialOpen DEF InitOpen
  <2>2. io'[p] = "regs" /\ bitwork_mem' = bitwork_mem
    BY <1>1, <1>3 DEF InitOpen, vpu_open, LibTypeOK
  <2>3. Equipped(p)'
    BY <2>2 DEF Equipped, Has
  <2> QED
    BY <2>1, <2>2, <2>3, OthersIntact
<1>4. CASE InitRegs(p)
  <2>1. UNCHANGED vars /\ io'[p] = "call" /\ cur'[p] = "work"
    BY <1>1, <1>4 DEF InitRegs, LibTypeOK
  <2>2. ~Has(p, "work")' /\ ~Has(p, "code")' /\ ~Has(p, "para")'
    BY <2>1, RankValues DEF Has
  <2>3. Equipped(p)'
    BY <2>1, <2>2 DEF Equipped
  <2> QED
    BY <2>1, <2>3, QuietIntact
<1>5. CASE InitRegsFail(p)
  <2>1. vpu_release(p) /\ io'[p] = "down"
    BY <1>1, <1>5 DEF InitRegsFail, LibTypeOK
  <2> QED
    BY <2>1, CloseIntact
<1> QED
  BY <1>2, <1>3, <1>4, <1>5

\* the working buffer is asked for,
LEMMA CallWorkIntact ==
  ASSUME IoBase, Intact, ~overlap, UNCHANGED overlap, NEW p \in Clients, Apart(p), CallWork(p)
  PROVE  Intact'
<1>1. io[p] = "call" /\ cur[p] = "work"
  BY DEF CallWork
<1>2. LibTypeOK /\ Staged(p) /\ Equipped(p) /\ PInv /\ Serial /\ TypeOK
  BY DEF IoBase, Intact, Base
<1>3. CASE Enters(p) /\ bitwork_mem # NoMem /\ Got(p, bitwork_mem) /\ UNCHANGED vars
  <2>1. bitwork_mem \in Desc /\ bitwork_mem' = bitwork_mem
    BY <1>2, <1>3 DEF TypeOK, vars
  <2>2. Equipped(p)'
    BY <1>1, <1>2, <1>3, <2>1, EquipGot
  <2> QED
    BY <1>3, <2>2, QuietIntact
<1>4. ASSUME GetWorkAddr(p) \/ WorkCopyIn(p) \/ WorkAlloc(p) \/ WorkFail(p)
      PROVE  PInv' /\ Serial' /\ bitwork_mem = NoMem
  <2>1. PInv' /\ Serial'
    BY <1>2, <1>4, WorkInv, SerialWork
  <2>2. bitwork_mem = NoMem
    BY <1>2, <1>4 DEF GetWorkAddr, WorkCopyIn, WorkAlloc, WorkFail, Serial, Working
  <2> QED
    BY <2>1, <2>2
<1>5. CASE (GetWorkAddr(p) \/ WorkCopyIn(p)) /\ UNCHANGED libvars
  <2>1. io' = io /\ cur' = cur
    BY <1>5 DEF libvars
  <2>2. ~Has(p, "work")' /\ ~Has(p, "code")' /\ ~Has(p, "para")'
    BY <1>1, <2>1, RankValues DEF Has
  <2>3. Equipped(p)'
    BY <1>1, <2>1, <2>2 DEF Equipped
  <2> QED
    BY <1>4, <1>5, <2>3, OthersIntact
<1>6. CASE WorkAlloc(p) /\ Got(p, bitwork_mem')
  <2>1. PICK d : d = bitwork_mem'
    OBVIOUS
  <2>2. d \in Desc
    BY <1>6, <2>1, FirstFitFree DEF WorkAlloc
  <2>3. Equipped(p)'
    BY <1>1, <1>2, <1>6, <2>1, <2>2, EquipGot
  <2> QED
    BY <1>4, <1>6, <2>3, OthersIntact
<1>7. CASE WorkFail(p) /\ Failed(p, [buf EXCEPT ![p].work = NoMem]) /\ UNCHANGED faults
  <2>1. io'[p] = "unwind" /\ cur'[p] = "none" /\ pc'[p] = "user"
    BY <1>1, <1>2, <1>7 DEF Failed, LibTypeOK, OnError, WorkFail, TypeOK
  <2>2. ~Has(p, "work")' /\ ~Has(p, "code")' /\ ~Has(p, "para")'
    BY <2>1, RankValues DEF Has
  <2>3. Equipped(p)'
    BY <2>1, <2>2 DEF Equipped
  <2> QED
    BY <1>4, <1>7, <2>3, OthersIntact
<1> QED
  BY <1>3, <1>5, <1>6, <1>7 DEF CallWork

\* the code and parameter buffers are,
LEMMA CallAllocIntact ==
  ASSUME IoBase, Intact, ~overlap, UNCHANGED overlap, NEW p \in Clients, Apart(p), CallAlloc(p)
  PROVE  Intact'
<1>1. io[p] = "call" /\ cur[p] # "work" /\ cur[p] \in Buffers
  BY DEF CallAlloc, IoBase, Staged
<1>2. LibTypeOK /\ Staged(p) /\ Equipped(p) /\ PInv /\ Serial /\ TypeOK
  BY DEF IoBase, Intact, Base
<1>3. CASE PhymemAlloc(p, PagesOf[cur[p]]) /\ UNCHANGED libvars
  <2>1. PInv' /\ Serial'
    BY <1>2, <1>3, AllocInv, SerialAlloc
  <2>2. UNCHANGED <<io, cur, buf, held, bitwork_mem>>
    BY <1>3 DEF libvars, PhymemAlloc
  <2>3. Equipped(p)'
    BY <1>1, <1>2, <2>2 DEF Equipped, Has
  <2> QED
    BY <2>1, <2>2, <2>3, OthersIntact
<1>4. CASE PhymemRecord(p) /\ Got(p, mem[p])
  <2>1. PInv' /\ Serial'
    BY <1>2, <1>4, RecordInv, SerialRecord
  <2>2. /\ mem[p] \in Desc /\ bitwork_mem' = bitwork_mem /\ mem[p] \notin held[p]
        /\ held'[p] = held[p] \cup {mem[p]}
    BY <1>2, <1>4 DEF PhymemRecord, TypeOK, PInv, Fresh
  <2>3. Equipped(p)'
    BY <1>1, <1>2, <1>4, <2>2, EquipGot
  <2> QED
    BY <2>1, <2>2, <2>3, OthersIntact
<1>5. CASE Enters(p) /\ Failed(p, [buf EXCEPT ![p][cur[p]] = NoMem]) /\ UNCHANGED <<vars, faults>>
  <2>1. UNCHANGED vars /\ UNCHANGED <<pc, held, bitwork_mem>> /\ pc[p] = "user"
    BY <1>5 DEF vars, Enters
  <2>2. io'[p] = "unwind" /\ cur'[p] = OnError[cur[p]]
    BY <1>2, <1>5 DEF Failed, LibTypeOK
  <2>3. \A n \in Buffers \ {cur[p]} : buf'[p][n] = buf[p][n]
    BY <1>1, <1>2, <1>5 DEF Failed, LibTypeOK
  <2>4. Equipped(p)'
    BY <1>1, <1>2, <2>1, <2>2, <2>3, EquipFailed
  <2> QED
    BY <2>1, <2>4, QuietIntact
<1> QED
  BY <1>3, <1>4, <1>5 DEF CallAlloc

\* they are mapped,
LEMMA MapIntact ==
  ASSUME IoBase, Intact, ~overlap, NEW p \in Clients, Apart(p), Map(p) \/ MapFail(p)
  PROVE  Intact'
<1>1. /\ io[p] = "map" /\ UNCHANGED vars /\ UNCHANGED <<pc, held, bitwork_mem>>
      /\ buf' = buf
  BY DEF Map, MapFail, Failed, vars
<1>2. LibTypeOK /\ Equipped(p) /\ cur[p] \in Buffers /\ pc[p] = "user"
  BY <1>1 DEF IoBase, Intact, Staged
<1>3. CASE Map(p)
  <2>1. ASSUME NEW b \in Buffers, Has(p, b)' PROVE Has(p, b)
    <3>1. CASE cur[p] = "para"
      BY <1>1, <3>1, RankValues DEF Has, Buffers
    <3>2. CASE cur[p] # "para"
      <4>1. io'[p] = "call" /\ cur'[p] = After[cur[p]]
        BY <1>2, <1>3, <3>2 DEF Map, LibTypeOK
      <4>2. Rank[After[cur[p]]] = Rank[cur[p]] + 1
        BY <1>2, <3>2, RankValues DEF After, Buffers
      <4>3. Rank[b] < Rank[cur[p]] + 1
        BY <2>1, <4>1, <4>2 DEF Has
      <4> QED
        BY <1>1, <1>2, <4>3, RankValues DEF Has, Buffers
    <3> QED
      BY <3>1, <3>2
  <2>2. io'[p] \in {"call", "up"}
    BY <1>2, <1>3 DEF Map, LibTypeOK
  <2>3. Equipped(p)'
    BY <1>1, <1>2, <2>1, <2>2 DEF Equipped, Buffers
  <2> QED
    BY <1>1, <2>3, QuietIntact
<1>4. CASE MapFail(p)
  <2>1. io'[p] = "unwind" /\ cur'[p] = OnError[cur[p]]
    BY <1>2, <1>4 DEF MapFail, Failed, LibTypeOK
  <2>2. Equipped(p)'
    BY <1>1, <1>2, <2>1, EquipFailed
  <2> QED
    BY <1>1, <2>2, QuietIntact
<1> QED
  BY <1>3, <1>4

\* the unwinding frees buffers that are held,
LEMMA UnwindIntact ==
  ASSUME IoBase, Intact, ~overlap, UNCHANGED overlap, ~gaveBack', NEW p \in Clients, Apart(p),
         Unwind(p)
  PROVE  Intact'
<1>1. io[p] = "unwind" /\ cur[p] # "none"
  BY DEF Unwind
<1>2. LibTypeOK /\ Staged(p) /\ Equipped(p) /\ PInv /\ Serial /\ TypeOK
  BY DEF IoBase, Intact, Base
<1>3. CASE /\ PhymemFree(p, buf[p][cur[p]])
           /\ gaveBack' = (gaveBack \/ cur[p] = "work")
           /\ UNCHANGED <<io, cur, buf, vpu_active_num, faults>>
  <2>1. cur[p] = "code"
    BY <1>1, <1>2, <1>3 DEF Staged
  <2>2. Has(p, "code") /\ pc[p] = "user" /\ ~Has(p, "para")
    BY <1>1, <1>3, <2>1, RankValues DEF Has, PhymemFree, Enters
  <2>3. buf[p][cur[p]] \in held[p]
    BY <1>2, <2>1, <2>2 DEF Equipped
  <2>4. PInv' /\ Serial'
    BY <1>2, <1>3, <2>3, FreeInv, SerialFree
  <2>5. pc'[p] = "unlist" /\ bitwork_mem' = bitwork_mem
    BY <1>2, <1>3 DEF PhymemFree, TypeOK
  <2>6. \A b : Has(p, b)' <=> Has(p, b)
    BY <1>3 DEF Has
  <2>7. Equipped(p)'
    BY <1>1, <1>2, <1>3, <2>1, <2>2, <2>5, <2>6 DEF Equipped
  <2> QED
    BY <2>4, <2>5, <2>7, OthersIntact
<1>4. CASE /\ PhymemUnlist(p)
           /\ buf' = [buf EXCEPT ![p][cur[p]] = NoMem]
           /\ cur' = [cur EXCEPT ![p] = OnError[@]]
           /\ UNCHANGED <<io, vpu_active_num, faults, gaveBack>>
  <2>1. pc[p] = "unlist" /\ cur[p] = "code"
    BY <1>1, <1>2, <1>4 DEF PhymemUnlist, Equipped
  <2>2. PInv' /\ Serial'
    BY <1>2, <1>4, UnlistInv, SerialUnlist
  <2>3. pc'[p] = "user" /\ bitwork_mem' = bitwork_mem /\ io'[p] = "unwind" /\ cur'[p] = "work"
    BY <1>1, <1>2, <1>4, <2>1 DEF PhymemUnlist, TypeOK, LibTypeOK, OnError
  <2>4. ~Has(p, "code")' /\ ~Has(p, "para")' /\ Has(p, "work")
    BY <1>1, <2>1, <2>3, RankValues DEF Has
  <2>5. buf'[p]["work"] = buf[p]["work"]
    BY <1>2, <1>4, <2>1 DEF LibTypeOK, Buffers
  <2>6. Equipped(p)'
    BY <1>2, <2>3, <2>4, <2>5 DEF Equipped
  <2> QED
    BY <2>2, <2>3, <2>6, OthersIntact
<1> QED
  BY <1>3, <1>4 DEF Unwind

\* a shutdown or a kill,
LEMMA StopIntact ==
  ASSUME IoBase, Intact, ~overlap, UNCHANGED overlap, NEW p \in Clients, Apart(p),
         Shutdown(p) \/ Kill(p)
  PROVE  Intact'
<1>1. LibTypeOK /\ Equipped(p)
  BY DEF IoBase, Intact
<1>2. CASE vpu_release(p) /\ io' = [io EXCEPT ![p] = "down"]
  <2>1. io'[p] = "down"
    BY <1>1, <1>2 DEF LibTypeOK
  <2> QED
    BY <1>2, <2>1, CloseIntact
<1>3. CASE UNCHANGED <<vars, io>> /\ UNCHANGED <<cur, buf>>
  <2>1. UNCHANGED vars /\ UNCHANGED <<io, cur, buf, pc, held, bitwork_mem>>
    BY <1>3 DEF vars
  <2>2. Equipped(p)'
    BY <1>1, <2>1 DEF Equipped, Has
  <2> QED
    BY <2>1, <2>2, QuietIntact
<1> QED
  BY <1>2, <1>3 DEF Shutdown, Kill

\* and the application's own buffers.
LEMMA AppIntact ==
  ASSUME IoBase, Intact, ~overlap, UNCHANGED overlap, NEW p \in Clients, Apart(p),
         AppAlloc(p) \/ AppFree(p)
  PROVE  Intact'
<1>1. io[p] = "up" /\ UNCHANGED <<io, cur, buf>>
  BY DEF AppAlloc, AppFree, libvars
<1>2. Equipped(p) /\ PInv /\ Serial /\ TypeOK
  BY DEF IoBase, Intact, Base
<1>3. /\ buf[p]["work"] = bitwork_mem /\ buf[p]["code"] \in held[p] /\ buf[p]["para"] \in held[p]
      /\ buf[p]["code"] # buf[p]["para"]
  BY <1>1, <1>2 DEF Equipped, Has
<1>4. ASSUME buf[p]["code"] \in held'[p], buf[p]["para"] \in held'[p], bitwork_mem' = bitwork_mem,
             PInv', Serial'
      PROVE  Intact'
  <2>1. Equipped(p)'
    BY <1>1, <1>3, <1>4 DEF Equipped
  <2> QED
    BY <1>4, <2>1, OthersIntact
<1>5. CASE \E n \in AppSizes : PhymemAlloc(p, n)
  <2>1. PInv' /\ Serial'
    BY <1>2, <1>5, AllocInv, SerialAlloc
  <2>2. held' = held /\ bitwork_mem' = bitwork_mem
    BY <1>5 DEF PhymemAlloc
  <2> QED
    BY <1>3, <1>4, <2>1, <2>2
<1>6. CASE PhymemRecord(p)
  <2>1. PInv' /\ Serial'
    BY <1>2, <1>6, RecordInv, SerialRecord
  <2>2. held[p] \subseteq held'[p] /\ bitwork_mem' = bitwork_mem
    BY <1>2, <1>6 DEF PhymemRecord, TypeOK
  <2> QED
    BY <1>3, <1>4, <2>1, <2>2
<1>7. CASE \E d \in held[p] \ {buf[p].code, buf[p].para} : PhymemFree(p, d)
  <2>1. PICK d \in held[p] \ {buf[p].code, buf[p].para} : PhymemFree(p, d)
    BY <1>7
  <2>2. PInv' /\ Serial'
    BY <1>2, <2>1, FreeInv, SerialFree
  <2>3. held'[p] = held[p] \ {d} /\ bitwork_mem' = bitwork_mem
    BY <1>2, <2>1 DEF PhymemFree, TypeOK
  <2>4. d # buf[p]["code"] /\ d # buf[p]["para"]
    BY <2>1 DEF IoBase, LibTypeOK, Buffers
  <2> QED
    BY <1>3, <1>4, <2>2, <2>3, <2>4
<1>8. CASE PhymemUnlist(p)
  <2>1. PInv' /\ Serial'
    BY <1>2, <1>8, UnlistInv, SerialUnlist
  <2>2. held' = held /\ bitwork_mem' = bitwork_mem
    BY <1>8 DEF PhymemUnlist
  <2> QED
    BY <1>3, <1>4, <2>1, <2>2
<1> QED
  BY <1>5, <1>6, <1>7, <1>8 DEF AppAlloc, AppFree

\* Together, every step of the library.
LEMMA LibStepIntact ==
  ASSUME IoBase, Intact, ~overlap, UNCHANGED overlap, ~gaveBack', NEW p \in Clients, LibStep(p)
  PROVE  Intact'
<1>1. Apart(p)
  BY LibStepBase
<1> QED
  BY <1>1, StartIntact, CallWorkIntact, CallAllocIntact, MapIntact, UnwindIntact, StopIntact,
     AppIntact DEF LibStep

\* Intact holds at first,
LEMMA IntactInit == IoInit => Intact
<1> SUFFICES ASSUME IoInit PROVE Intact
  OBVIOUS
<1>1. PInv /\ Serial
  BY PInit, SerialInit DEF IoInit
<1>2. \A p \in Clients : Equipped(p)
  BY DEF IoInit, Equipped, Has
<1> QED
  BY <1>1, <1>2 DEF Intact

\* A working buffer that was given back stays so.
LEMMA GaveBackStays == [IoNext]_iovars => (gaveBack => gaveBack')
<1> SUFFICES ASSUME [IoNext]_iovars, gaveBack PROVE gaveBack'
  OBVIOUS
<1>1. CASE UNCHANGED iovars
  BY <1>1 DEF iovars, libvars
<1>2. ASSUME NEW p \in Clients, LibStep(p) PROVE gaveBack'
  BY <1>2 DEF LibStep, InitAgain, InitOpen, InitRegs, InitRegsFail, CallWork, CallAlloc, Map, MapFail,
     Unwind, Shutdown, AppAlloc, AppFree, Kill, Got, Failed, libvars
<1> QED
  BY <1>1, <1>2, IoNextSteps

\* and after every step until a failed init gave the working buffer back.
LEMMA IntactNext ==
  ASSUME IoBase, ~overlap, ~gaveBack => Intact, [IoNext]_iovars
  PROVE  ~overlap' /\ (~gaveBack' => Intact')
<1>1. CASE UNCHANGED iovars
  <2>1. UNCHANGED vars /\ UNCHANGED libvars /\ UNCHANGED <<pc, held, bitwork_mem, overlap>>
    BY <1>1 DEF iovars, vars
  <2>2. ASSUME Intact PROVE Intact'
    <3>1. PInv' /\ Serial'
      BY <2>1, <2>2, IdleDriver DEF IoBase, Intact
    <3>2. ASSUME NEW p \in Clients PROVE Equipped(p)'
      BY <2>1, <2>2 DEF Intact, Equipped, Has, libvars
    <3> QED
      BY <3>1, <3>2 DEF Intact
  <2> QED
    BY <2>1, <2>2 DEF libvars
<1>2. ASSUME UNCHANGED overlap, NEW p \in Clients, LibStep(p)
      PROVE  ~overlap' /\ (~gaveBack' => Intact')
  BY <1>2, GaveBackStays, LibStepIntact
<1> QED
  BY <1>1, <1>2, IoNextSteps

\* While ioctls do not overlap, and until a failed IOSystemInit gives the working buffer
\* back, that buffer stays allocated and apart from everybody's, and every initialised
\* process uses it and has code and parameter buffers of its own.
THEOREM IoBuffers == IoSpec /\ ~overlap => [](WorkBufferKept /\ InitGivesBuffers)
<1> DEFINE I == IoBase /\ ~overlap /\ (~gaveBack => Intact)
<1>1. I => WorkBufferKept
  BY SerialSafe DEF Intact, WorkBufferKept
<1>2. I => InitGivesBuffers
  <2> SUFFICES ASSUME IoBase, Intact, NEW p \in Clients, io[p] = "up"
               PROVE  /\ buf[p].work = bitwork_mem
                      /\ {buf[p].code, buf[p].para} \subseteq held[p]
                      /\ buf[p].code # buf[p].para
    BY DEF InitGivesBuffers
  <2>1. /\ buf[p]["work"] = bitwork_mem /\ buf[p]["code"] \in held[p] /\ buf[p]["para"] \in held[p]
        /\ buf[p]["code"] # buf[p]["para"]
    BY DEF Intact, Equipped, Has
  <2> QED
    BY <2>1 DEF IoBase, LibTypeOK, Buffers
<1>3. IoInit /\ ~overlap => I
  BY IoBaseInit, IntactInit
<1>4. I /\ [IoNext]_iovars => I'
  BY IoBaseNext, IntactNext
<1> QED
  BY <1>1, <1>2, <1>3, <1>4, PTL DEF IoSpec
=============================================================================
