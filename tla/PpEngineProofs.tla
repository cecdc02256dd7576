--------------------------- MODULE PpEngineProofs ---------------------------
(***************************************************************************)
(* Safety of the post-processor for any number of tasks and matrices, with *)
(* a block that may hang, fail, finish late, or refuse to be reset.        *)
(***************************************************************************)
EXTENDS PpEngine, TLAPS

Programming == {"program", "csc", "clear", "start"}
Converting == Programming \cup {"wait", "recover"}
Inside == Converting \cup {"first", "second"}

\* A task between mutex_lock and mutex_unlock holds the mutex.
Holder == \A t \in Tasks : pc[t] \in Inside => pp_lock = t

\* Until it is started, the block is idle and silent, and its registers and
\* flags are as far as the code has come.
Prepared ==
  /\ engine = "run" => job \in Tasks
  /\ \A t \in Tasks :
        /\ pc[t] \in Converting => op[t] = "convert"
        /\ pc[t] \in Programming => engine = "idle" /\ intr = {}
        /\ pc[t] \in Converting \ {"program"} => job = t
        /\ pc[t] \in {"clear", "start", "wait"} => enabled
        /\ pc[t] = "start" => ~pp_done

\* What a waiting task is told, or will be told, is about its own conversion.
Answered ==
  \A t \in Tasks : pc[t] = "wait" =>
     /\ "FRAME" \in intr => engine = "idle" /\ t \in finished
     /\ pp_done /\ "ERR" \notin pp_status => engine = "idle" /\ t \in finished

\* Success is claimed only between ioctls.
Claimed == \A t \in Tasks : t \in succeeded => pc[t] = "user"

\* The driver's matrix is torn only while a PP_SET_CSC copies it; the copies made
\* of it are as far as the code has come.
Matrix ==
  /\ (\A t \in Tasks : ~(pc[t] = "second" /\ op[t] = "set")) => Whole(pp_csc)
  /\ \A t \in Tasks :
        /\ pc[t] = "second" => op[t] \in {"set", "get"} /\ csc[t].hi = pp_csc.hi
        /\ Whole(csc[t]) \/ (pc[t] = "second" /\ op[t] = "get")
        /\ pc[t] = "csc" => regs.hi = pp_csc.hi
        /\ pc[t] \in {"clear", "start"} => Whole(regs)
  /\ engine = "run" => Whole(regs)

\* The inductive invariant.
PpInv ==
  /\ PpTypeOK /\ Holder /\ Prepared /\ Answered /\ Claimed /\ Matrix
  /\ OwnFrame /\ QuietAfterReturn /\ NoLostInterrupt

\* PpInv holds at first.
LEMMA PpInitInv == PpInit => PpInv
<1> SUFFICES ASSUME PpInit PROVE PpInv
  OBVIOUS
<1>1. PpTypeOK
  BY PpConstants DEF PpInit, PpTypeOK, Half, BuiltIn
<1>2. Holder /\ Prepared /\ Answered /\ Claimed
  BY DEF PpInit, Holder, Prepared, Answered, Claimed, Inside, Converting, Programming
<1>3. Matrix /\ OwnFrame /\ QuietAfterReturn /\ NoLostInterrupt
  BY DEF PpInit, Matrix, Whole, BuiltIn, OwnFrame, QuietAfterReturn, NoLostInterrupt
<1> QED
  BY <1>1, <1>2, <1>3 DEF PpInv

\* Nobody else is inside while t is.
LEMMA Alone ==
  ASSUME PpInv, NEW t \in Tasks, pc[t] \in Inside, NEW u \in Tasks, u # t
  PROVE  pc[u] \notin Inside
  BY DEF PpInv, Holder

-----------------------------------------------------------------------------
\* One lemma per group of actions: it preserves the invariant.

\* Entering an ioctl.
LEMMA EnterInv ==
  ASSUME PpInv, NEW t \in Tasks, NEW what \in {"convert", "set", "get"},
         NEW m \in Half, Whole(m), Enter(t, what), csc' = [csc EXCEPT ![t] = m]
  PROVE  PpInv'
<1> USE DEF PpInv
<1>1. PpTypeOK'
  BY DEF PpTypeOK, Enter, Goto, soft, hw
<1>2. Holder' /\ Prepared' /\ Answered' /\ Claimed'
  BY DEF PpTypeOK, Enter, Goto, soft, hw, Holder, Prepared, Answered, Claimed, Inside,
         Converting, Programming
<1>3. Matrix'
  BY DEF PpTypeOK, Enter, Goto, soft, hw, Matrix, Whole
<1>4. OwnFrame' /\ QuietAfterReturn' /\ NoLostInterrupt'
  BY DEF PpTypeOK, Enter, Goto, soft, hw, OwnFrame, QuietAfterReturn, NoLostInterrupt
<1> QED
  BY <1>1, <1>2, <1>3, <1>4

\* Taking the mutex.
LEMMA LockInv ==
  ASSUME PpInv, NEW t \in Tasks, Lock(t) PROVE PpInv'
<1> USE DEF PpInv
<1>1. PpTypeOK'
  BY DEF PpTypeOK, Lock, Goto, soft, hw
<1>2. Holder' /\ Prepared' /\ Answered' /\ Claimed'
  BY PpConstants DEF PpTypeOK, Lock, Goto, soft, hw, Holder, Prepared, Answered, Claimed,
         Inside, Converting, Programming
<1>3. Matrix'
  BY DEF PpTypeOK, Lock, Goto, soft, hw, Matrix, Whole
<1>4. OwnFrame' /\ QuietAfterReturn' /\ NoLostInterrupt'
  BY DEF PpTypeOK, Lock, Goto, soft, hw, OwnFrame, QuietAfterReturn, NoLostInterrupt
<1> QED
  BY <1>1, <1>2, <1>3, <1>4

\* PP_SET_CSC copies its matrix.
LEMMA SetInv ==
  ASSUME PpInv, NEW t \in Tasks, SetCsc(t) PROVE PpInv'
<1> USE DEF PpInv
<1>1. pc[t] \in Inside /\ \A u \in Tasks \ {t} : pc[u] \notin Inside
  BY Alone DEF SetCsc, Inside, Converting, Programming
<1>2. PpTypeOK'
  BY DEF PpTypeOK, Half, SetCsc, Stay, Leave, Goto, soft, hw
<1>3. Holder' /\ Claimed'
  BY <1>1 DEF PpTypeOK, SetCsc, Stay, Leave, Goto, soft, hw, Holder, Claimed, Inside,
         Converting, Programming
<1>4. Prepared'
  BY <1>1 DEF PpTypeOK, SetCsc, Stay, Leave, Goto, soft, hw, Prepared, Inside, Converting,
         Programming
<1>5. Answered' /\ NoLostInterrupt'
  BY <1>1 DEF PpTypeOK, SetCsc, Stay, Leave, Goto, soft, hw, Prepared, Answered,
         NoLostInterrupt, Inside, Converting, Programming
<1>6. Matrix'
  BY <1>1 DEF PpTypeOK, SetCsc, Stay, Leave, Goto, soft, hw, Prepared, Matrix, Whole, Half, Inside,
         Converting, Programming
<1>7. OwnFrame' /\ QuietAfterReturn'
  BY <1>1 DEF PpTypeOK, SetCsc, Stay, Leave, Goto, soft, hw, Prepared, Answered, Claimed, OwnFrame,
         QuietAfterReturn, Inside, Converting, Programming
<1> QED
  BY <1>2, <1>3, <1>4, <1>5, <1>6, <1>7

\* PP_GET_CSC copies the driver's.
LEMMA GetInv ==
  ASSUME PpInv, NEW t \in Tasks, GetCsc(t) PROVE PpInv'
<1> USE DEF PpInv
<1>1. pc[t] \in Inside /\ \A u \in Tasks \ {t} : pc[u] \notin Inside
  BY Alone DEF GetCsc, Inside, Converting, Programming
<1>2. PpTypeOK'
  <2>1. csc[t] \in Half /\ pp_csc.hi \in Versions /\ pp_csc.lo \in Versions
    BY DEF PpTypeOK, Half
  <2>2. /\ [csc[t] EXCEPT !.hi = pp_csc.hi] \in Half
        /\ [csc[t] EXCEPT !.lo = pp_csc.lo] \in Half
    BY <2>1 DEF Half
  <2>3. csc' \in [Tasks -> Half]
    BY <2>2 DEF PpTypeOK, GetCsc
  <2> QED
    BY <2>3 DEF PpTypeOK, GetCsc, Stay, Leave, Goto, soft, hw
<1>3. Holder' /\ Claimed'
  BY <1>1 DEF PpTypeOK, GetCsc, Stay, Leave, Goto, soft, hw, Holder, Claimed, Inside,
         Converting, Programming
<1>4. Prepared'
  BY <1>1 DEF PpTypeOK, GetCsc, Stay, Leave, Goto, soft, hw, Prepared, Inside, Converting,
         Programming
<1>5. Answered' /\ NoLostInterrupt'
  BY <1>1 DEF PpTypeOK, GetCsc, Stay, Leave, Goto, soft, hw, Prepared, Answered,
         NoLostInterrupt, Inside, Converting, Programming
<1>6. Matrix'
  BY <1>1 DEF PpTypeOK, GetCsc, Stay, Leave, Goto, soft, hw, Prepared, Matrix, Whole, Half, Inside,
         Converting, Programming
<1>7. OwnFrame' /\ QuietAfterReturn'
  BY <1>1 DEF PpTypeOK, GetCsc, Stay, Leave, Goto, soft, hw, Prepared, Answered, Claimed, OwnFrame,
         QuietAfterReturn, Inside, Converting, Programming
<1> QED
  BY <1>2, <1>3, <1>4, <1>5, <1>6, <1>7

\* The reset before a conversion.
LEMMA ResetInv ==
  ASSUME PpInv, NEW t \in Tasks, Reset(t) PROVE PpInv'
<1> USE DEF PpInv
<1>1. pc[t] \in Inside /\ \A u \in Tasks \ {t} : pc[u] \notin Inside
  BY Alone DEF Reset, Inside, Converting, Programming
<1>2. PpTypeOK'
  BY DEF PpTypeOK, Half, Reset, ResetOk, ResetFails, Stay, Leave, Goto, soft, hw
<1>3. Holder' /\ Claimed'
  BY <1>1 DEF PpTypeOK, Reset, ResetOk, ResetFails, Stay, Leave, Goto, soft, hw, Holder, Claimed, Inside,
         Converting, Programming
<1>4. Prepared'
  BY <1>1 DEF PpTypeOK, Reset, ResetOk, ResetFails, Stay, Leave, Goto, soft, hw, Prepared, Inside, Converting,
         Programming
<1>5. Answered' /\ NoLostInterrupt'
  BY <1>1 DEF PpTypeOK, Reset, ResetOk, ResetFails, Stay, Leave, Goto, soft, hw, Prepared, Answered,
         NoLostInterrupt, Inside, Converting, Programming
<1>6. Matrix'
  <2>1. /\ UNCHANGED <<csc, pp_csc, regs>>
        /\ engine' = "run" => engine = "run"
        /\ \E at \in {"program", "user"} : Goto(t, at)
    BY DEF Reset, ResetOk, ResetFails, Stay, Leave, soft, hw
  <2>2. pc[t] = "first"
    BY DEF Reset
  <2>3. \A u \in Tasks : (pc[u] = "second") = (pc'[u] = "second")
    BY <2>1, <2>2 DEF PpTypeOK, Goto
  <2>4. \A u \in Tasks : pc[u] # "second" /\ pc'[u] \notin {"csc", "clear", "start"}
    BY <1>1, <2>1, <2>2 DEF PpTypeOK, Goto, Inside, Converting, Programming
  <2> QED
    BY <2>1, <2>3, <2>4 DEF Matrix, Whole
<1>7. OwnFrame' /\ QuietAfterReturn'
  BY <1>1 DEF PpTypeOK, Reset, ResetOk, ResetFails, Stay, Leave, Goto, soft, hw, Prepared, Answered, Claimed, OwnFrame,
         QuietAfterReturn, Inside, Converting, Programming
<1> QED
  BY <1>2, <1>3, <1>4, <1>5, <1>6, <1>7

\* The first registers.
LEMMA ProgramInv ==
  ASSUME PpInv, NEW t \in Tasks, Program(t) PROVE PpInv'
<1> USE DEF PpInv
<1>1. pc[t] \in Inside /\ \A u \in Tasks \ {t} : pc[u] \notin Inside
  BY Alone DEF Program, Inside, Converting, Programming
<1>2. PpTypeOK'
  BY DEF PpTypeOK, Half, Program, Stay, Leave, Goto, soft, hw
<1>3. Holder' /\ Claimed'
  BY <1>1 DEF PpTypeOK, Program, Stay, Leave, Goto, soft, hw, Holder, Claimed, Inside,
         Converting, Programming
<1>4. Prepared'
  BY <1>1 DEF PpTypeOK, Program, Stay, Leave, Goto, soft, hw, Prepared, Inside, Converting,
         Programming
<1>5. Answered' /\ NoLostInterrupt'
  BY <1>1 DEF PpTypeOK, Program, Stay, Leave, Goto, soft, hw, Prepared, Answered,
         NoLostInterrupt, Inside, Converting, Programming
<1>6. Matrix'
  BY <1>1 DEF PpTypeOK, Program, Stay, Leave, Goto, soft, hw, Prepared, Matrix, Whole, Half, Inside,
         Converting, Programming
<1>7. OwnFrame' /\ QuietAfterReturn'
  BY <1>1 DEF PpTypeOK, Program, Stay, Leave, Goto, soft, hw, Prepared, Answered, Claimed, OwnFrame,
         QuietAfterReturn, Inside, Converting, Programming
<1> QED
  BY <1>2, <1>3, <1>4, <1>5, <1>6, <1>7

\* The other registers.
LEMMA ProgramRestInv ==
  ASSUME PpInv, NEW t \in Tasks, ProgramRest(t) PROVE PpInv'
<1> USE DEF PpInv
<1>1. pc[t] \in Inside /\ \A u \in Tasks \ {t} : pc[u] \notin Inside
  BY Alone DEF ProgramRest, Inside, Converting, Programming
<1>2. PpTypeOK'
  BY DEF PpTypeOK, Half, ProgramRest, Stay, Leave, Goto, soft, hw
<1>3. Holder' /\ Claimed'
  BY <1>1 DEF PpTypeOK, ProgramRest, Stay, Leave, Goto, soft, hw, Holder, Claimed, Inside,
         Converting, Programming
<1>4. Prepared'
  BY <1>1 DEF PpTypeOK, ProgramRest, Stay, Leave, Goto, soft, hw, Prepared, Inside, Converting,
         Programming
<1>5. Answered' /\ NoLostInterrupt'
  BY <1>1 DEF PpTypeOK, ProgramRest, Stay, Leave, Goto, soft, hw, Prepared, Answered,
         NoLostInterrupt, Inside, Converting, Programming
<1>6. Matrix'
  BY <1>1 DEF PpTypeOK, ProgramRest, Stay, Leave, Goto, soft, hw, Prepared, Matrix, Whole, Half, Inside,
         Converting, Programming
<1>7. OwnFrame' /\ QuietAfterReturn'
  BY <1>1 DEF PpTypeOK, ProgramRest, Stay, Leave, Goto, soft, hw, Prepared, Answered, Claimed, OwnFrame,
         QuietAfterReturn, Inside, Converting, Programming
<1> QED
  BY <1>2, <1>3, <1>4, <1>5, <1>6, <1>7

\* Clearing the flags.
LEMMA ClearInv ==
  ASSUME PpInv, NEW t \in Tasks, ClearDone(t) PROVE PpInv'
<1> USE DEF PpInv
<1>1. pc[t] \in Inside /\ \A u \in Tasks \ {t} : pc[u] \notin Inside
  BY Alone DEF ClearDone, Inside, Converting, Programming
<1>2. PpTypeOK'
  BY DEF PpTypeOK, Half, ClearDone, Stay, Leave, Goto, soft, hw
<1>3. Holder' /\ Claimed'
  BY <1>1 DEF PpTypeOK, ClearDone, Stay, Leave, Goto, soft, hw, Holder, Claimed, Inside,
         Converting, Programming
<1>4. Prepared'
  BY <1>1 DEF PpTypeOK, ClearDone, Stay, Leave, Goto, soft, hw, Prepared, Inside, Converting,
         Programming
<1>5. Answered' /\ NoLostInterrupt'
  BY <1>1 DEF PpTypeOK, ClearDone, Stay, Leave, Goto, soft, hw, Prepared, Answered,
         NoLostInterrupt, Inside, Converting, Programming
<1>6. Matrix'
  BY <1>1 DEF PpTypeOK, ClearDone, Stay, Leave, Goto, soft, hw, Prepared, Matrix, Whole, Half, Inside,
         Converting, Programming
<1>7. OwnFrame' /\ QuietAfterReturn'
  BY <1>1 DEF PpTypeOK, ClearDone, Stay, Leave, Goto, soft, hw, Prepared, Answered, Claimed, OwnFrame,
         QuietAfterReturn, Inside, Converting, Programming
<1> QED
  BY <1>2, <1>3, <1>4, <1>5, <1>6, <1>7

\* Starting the block.
LEMMA StartInv ==
  ASSUME PpInv, NEW t \in Tasks, Start(t) PROVE PpInv'
<1> USE DEF PpInv
<1>1. pc[t] \in Inside /\ \A u \in Tasks \ {t} : pc[u] \notin Inside
  BY Alone DEF Start, Inside, Converting, Programming
<1>2. PpTypeOK'
  BY DEF PpTypeOK, Half, Start, Stay, Leave, Goto, soft, hw
<1>3. Holder' /\ Claimed'
  BY <1>1 DEF PpTypeOK, Start, Stay, Leave, Goto, soft, hw, Holder, Claimed, Inside,
         Converting, Programming
<1>4. Prepared'
  BY <1>1 DEF PpTypeOK, Start, Stay, Leave, Goto, soft, hw, Prepared, Inside, Converting,
         Programming
<1>5. Answered' /\ NoLostInterrupt'
  BY <1>1 DEF PpTypeOK, Start, Stay, Leave, Goto, soft, hw, Prepared, Answered,
         NoLostInterrupt, Inside, Converting, Programming
<1>6. Matrix'
  BY <1>1 DEF PpTypeOK, Start, Stay, Leave, Goto, soft, hw, Prepared, Matrix, Whole, Half, Inside,
         Converting, Programming
<1>7. OwnFrame' /\ QuietAfterReturn'
  BY <1>1 DEF PpTypeOK, Start, Stay, Leave, Goto, soft, hw, Prepared, Answered, Claimed, OwnFrame,
         QuietAfterReturn, Inside, Converting, Programming
<1> QED
  BY <1>2, <1>3, <1>4, <1>5, <1>6, <1>7

\* The end of a wait by the interrupt.
LEMMA WokenInv ==
  ASSUME PpInv, NEW t \in Tasks, Woken(t) PROVE PpInv'
<1> USE DEF PpInv
<1>1. pc[t] \in Inside /\ \A u \in Tasks \ {t} : pc[u] \notin Inside
  BY Alone DEF Woken, Inside, Converting, Programming
<1>2. PpTypeOK'
  BY DEF PpTypeOK, Half, Woken, Stay, Leave, Goto, soft, hw
<1>3. Holder' /\ Claimed'
  BY <1>1 DEF PpTypeOK, Woken, Stay, Leave, Goto, soft, hw, Holder, Claimed, Inside,
         Converting, Programming
<1>4. Prepared'
  BY <1>1 DEF PpTypeOK, Woken, Stay, Leave, Goto, soft, hw, Prepared, Inside, Converting,
         Programming
<1>5. Answered' /\ NoLostInterrupt'
  BY <1>1 DEF PpTypeOK, Woken, Stay, Leave, Goto, soft, hw, Prepared, Answered,
         NoLostInterrupt, Inside, Converting, Programming
<1>6. Matrix'
  BY <1>1 DEF PpTypeOK, Woken, Stay, Leave, Goto, soft, hw, Prepared, Matrix, Whole, Half, Inside,
         Converting, Programming
<1>7. OwnFrame' /\ QuietAfterReturn'
  BY <1>1 DEF PpTypeOK, Woken, Stay, Leave, Goto, soft, hw, Prepared, Answered, Claimed, OwnFrame,
         QuietAfterReturn, Inside, Converting, Programming
<1> QED
  BY <1>2, <1>3, <1>4, <1>5, <1>6, <1>7

\* The end of a wait by timeout or signal.
LEMMA FailsInv ==
  ASSUME PpInv, NEW t \in Tasks, WaitFails(t) PROVE PpInv'
<1> USE DEF PpInv
<1>1. pc[t] \in Inside /\ \A u \in Tasks \ {t} : pc[u] \notin Inside
  BY Alone DEF WaitFails, Inside, Converting, Programming
<1>2. PpTypeOK'
  BY DEF PpTypeOK, Half, WaitFails, Stay, Leave, Goto, soft, hw
<1>3. Holder' /\ Claimed'
  BY <1>1 DEF PpTypeOK, WaitFails, Stay, Leave, Goto, soft, hw, Holder, Claimed, Inside,
         Converting, Programming
<1>4. Prepared'
  BY <1>1 DEF PpTypeOK, WaitFails, Stay, Leave, Goto, soft, hw, Prepared, Inside, Converting,
         Programming
<1>5. Answered' /\ NoLostInterrupt'
  BY <1>1 DEF PpTypeOK, WaitFails, Stay, Leave, Goto, soft, hw, Prepared, Answered,
         NoLostInterrupt, Inside, Converting, Programming
<1>6. Matrix'
  BY <1>1 DEF PpTypeOK, WaitFails, Stay, Leave, Goto, soft, hw, Prepared, Matrix, Whole, Half, Inside,
         Converting, Programming
<1>7. OwnFrame' /\ QuietAfterReturn'
  BY <1>1 DEF PpTypeOK, WaitFails, Stay, Leave, Goto, soft, hw, Prepared, Answered, Claimed, OwnFrame,
         QuietAfterReturn, Inside, Converting, Programming
<1> QED
  BY <1>2, <1>3, <1>4, <1>5, <1>6, <1>7

\* The reset after a failure.
LEMMA RecoverInv ==
  ASSUME PpInv, NEW t \in Tasks, Recover(t) PROVE PpInv'
<1> USE DEF PpInv
<1>1. pc[t] \in Inside /\ \A u \in Tasks \ {t} : pc[u] \notin Inside
  BY Alone DEF Recover, Inside, Converting, Programming
<1>2. PpTypeOK'
  BY DEF PpTypeOK, Half, Recover, ResetOk, ResetFails, Stay, Leave, Goto, soft, hw
<1>3. Holder' /\ Claimed'
  BY <1>1 DEF PpTypeOK, Recover, ResetOk, ResetFails, Stay, Leave, Goto, soft, hw, Holder, Claimed, Inside,
         Converting, Programming
<1>4. Prepared'
  BY <1>1 DEF PpTypeOK, Recover, ResetOk, ResetFails, Stay, Leave, Goto, soft, hw, Prepared, Inside, Converting,
         Programming
<1>5. Answered' /\ NoLostInterrupt'
  BY <1>1 DEF PpTypeOK, Recover, ResetOk, ResetFails, Stay, Leave, Goto, soft, hw, Prepared, Answered,
         NoLostInterrupt, Inside, Converting, Programming
<1>6. Matrix'
  BY <1>1 DEF PpTypeOK, Recover, ResetOk, ResetFails, Stay, Leave, Goto, soft, hw, Prepared, Matrix, Whole, Half, Inside,
         Converting, Programming
<1>7. OwnFrame' /\ QuietAfterReturn'
  BY <1>1 DEF PpTypeOK, Recover, ResetOk, ResetFails, Stay, Leave, Goto, soft, hw, Prepared, Answered, Claimed, OwnFrame,
         QuietAfterReturn, Inside, Converting, Programming
<1> QED
  BY <1>2, <1>3, <1>4, <1>5, <1>6, <1>7

\* The block finishes.
LEMMA DoneInv ==
  ASSUME PpInv, FrameDone PROVE PpInv'
<1> USE DEF PpInv
<1>1. \A t \in Tasks : pc[t] = "wait" => job = t
  BY DEF Prepared, Converting, Programming
<1>2. PpTypeOK'
  BY DEF PpTypeOK, FrameDone, soft, hw, Prepared
<1>3. Holder' /\ Claimed' /\ Prepared'
  BY DEF PpTypeOK, FrameDone, soft, hw, Holder, Claimed, Prepared, Inside, Converting,
         Programming
<1>4. Answered' /\ NoLostInterrupt'
  BY <1>1 DEF PpTypeOK, FrameDone, soft, hw, Prepared, Answered, NoLostInterrupt
<1>5. Matrix'
  BY DEF PpTypeOK, FrameDone, soft, hw, Matrix
<1>6. OwnFrame' /\ QuietAfterReturn'
  BY DEF PpTypeOK, FrameDone, soft, hw, OwnFrame, QuietAfterReturn
<1> QED
  BY <1>2, <1>3, <1>4, <1>5, <1>6

\* The block reports an error.
LEMMA ErrorInv ==
  ASSUME PpInv, FrameError PROVE PpInv'
<1> USE DEF PpInv
<1>1. \A t \in Tasks : pc[t] = "wait" => job = t
  BY DEF Prepared, Converting, Programming
<1>2. PpTypeOK'
  BY DEF PpTypeOK, FrameError, soft, hw
<1>3. Holder' /\ Claimed' /\ Prepared'
  BY DEF PpTypeOK, FrameError, soft, hw, Holder, Claimed, Prepared, Inside, Converting,
         Programming
<1>4. Answered' /\ NoLostInterrupt'
  BY <1>1 DEF PpTypeOK, FrameError, soft, hw, Prepared, Answered, NoLostInterrupt
<1>5. Matrix'
  BY DEF PpTypeOK, FrameError, soft, hw, Matrix
<1>6. OwnFrame' /\ QuietAfterReturn'
  BY DEF PpTypeOK, FrameError, soft, hw, OwnFrame, QuietAfterReturn
<1> QED
  BY <1>2, <1>3, <1>4, <1>5, <1>6

\* The interrupt handler.
LEMMA IrqInv ==
  ASSUME PpInv, pp_irq_handler PROVE PpInv'
<1> USE DEF PpInv
<1>1. \A t \in Tasks : pc[t] = "wait" => job = t
  BY DEF Prepared, Converting, Programming
<1>2. PpTypeOK'
  BY DEF PpTypeOK, pp_irq_handler, soft, hw
<1>3. Holder' /\ Claimed' /\ Prepared'
  BY DEF PpTypeOK, pp_irq_handler, soft, hw, Holder, Claimed, Prepared, Inside, Converting,
         Programming
<1>4. Answered' /\ NoLostInterrupt'
  BY <1>1 DEF PpTypeOK, pp_irq_handler, soft, hw, Prepared, Answered, NoLostInterrupt
<1>5. Matrix'
  BY DEF PpTypeOK, pp_irq_handler, soft, hw, Matrix
<1>6. OwnFrame' /\ QuietAfterReturn'
  BY DEF PpTypeOK, pp_irq_handler, soft, hw, OwnFrame, QuietAfterReturn
<1> QED
  BY <1>2, <1>3, <1>4, <1>5, <1>6

-----------------------------------------------------------------------------
\* Every step preserves the invariant.
LEMMA PpNextInv == PpInv /\ [PpNext]_ppvars => PpInv'
<1> SUFFICES ASSUME PpInv, [PpNext]_ppvars PROVE PpInv'
  OBVIOUS
<1>1. ASSUME NEW t \in Tasks, Begin(t) PROVE PpInv'
  <2>1. BuiltIn \in Half /\ Whole(BuiltIn)
    BY PpConstants DEF BuiltIn, Half, Whole
  <2>2. \A v \in Versions : [hi |-> v, lo |-> v] \in Half /\ Whole([hi |-> v, lo |-> v])
    BY DEF Half, Whole
  <2>3. CASE PpConvert(t)
    BY <2>1, <2>3, EnterInv DEF PpConvert
  <2>4. CASE PpGetCsc(t)
    BY <2>1, <2>4, EnterInv DEF PpGetCsc
  <2>5. CASE \E v \in Versions : PpSetCsc(t, v)
    BY <2>2, <2>5, EnterInv DEF PpSetCsc
  <2> QED
    BY <1>1, <2>3, <2>4, <2>5 DEF Begin
<1>2. ASSUME NEW t \in Tasks, Continue(t) PROVE PpInv'
  BY <1>2, SetInv, GetInv, ResetInv, ProgramInv, ProgramRestInv, ClearInv, StartInv,
     WokenInv, FailsInv, RecoverInv DEF Continue
<1>3. CASE UNCHANGED ppvars
  BY <1>3 DEF ppvars, soft, hw, PpInv, PpTypeOK, Holder, Prepared, Answered, Claimed,
              Matrix, OwnFrame, QuietAfterReturn, NoLostInterrupt
<1> QED
  BY <1>1, <1>2, <1>3, LockInv, DoneInv, ErrorInv, IrqInv DEF PpNext

\* For any number of tasks: a conversion that reports success is the one PP
\* finished, PP writes into a buffer only during its own pp_convert (unless it could
\* not be reset), colour matrices are never torn and no interrupt is lost.
THEOREM PpSafe ==
  PpSpec => [](PpTypeOK /\ OwnFrame /\ QuietAfterReturn /\ CscWhole /\ NoLostInterrupt)
<1>1. PpInv => PpTypeOK /\ OwnFrame /\ QuietAfterReturn /\ CscWhole /\ NoLostInterrupt
  BY DEF PpInv, Matrix, CscWhole
<1> QED
  BY <1>1, PpInitInv, PpNextInv, PTL DEF PpSpec

\* PP is programmed only while it is idle, whatever earlier conversions left behind.
THEOREM PpProgramming == PpSpec => NoReprogramming
<1>1. PpInv /\ [PpNext]_ppvars => [<<job', regs'>> # <<job, regs>> => engine = "idle"]_ppvars
  <2> SUFFICES ASSUME PpInv, [PpNext]_ppvars, <<job', regs'>> # <<job, regs>>
               PROVE  engine = "idle"
    OBVIOUS
  <2>1. PICK t \in Tasks : Program(t) \/ ProgramRest(t)
    BY DEF PpNext, Begin, Continue, PpConvert, PpGetCsc, PpSetCsc, Enter, Lock, SetCsc,
           GetCsc, Reset, ResetOk, ResetFails, ClearDone, Start, Woken, WaitFails, Recover,
           FrameDone, FrameError, pp_irq_handler, ppvars, hw
  <2> QED
    BY <2>1 DEF PpInv, Prepared, Program, ProgramRest, Converting, Programming
<1> QED
  BY <1>1, PpInitInv, PpNextInv, PTL DEF PpSpec, NoReprogramming
=============================================================================
