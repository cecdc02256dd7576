------------------------------ MODULE PpEngine ------------------------------
(***************************************************************************)
(* The eMMA post-processor of the driver (kernel/mxc_vpu.c): pp_convert    *)
(* with its hardware reset, its wait for the interrupt and its recovery,   *)
(* pp_irq_handler, and the ioctls that set and get the colour matrix.      *)
(*                                                                         *)
(* Tasks preempt each other anywhere; the interrupt handler runs between   *)
(* any two steps.  A conversion is identified with the task that asked for *)
(* it.  A colour matrix is a version number written to two registers, so   *)
(* that a torn matrix shows.                                               *)
(***************************************************************************)
EXTENDS Naturals

CONSTANTS
  Tasks,        \* callers of the PP ioctls
  Versions      \* colour matrices; 0 is the built-in one

Free == "free"          \* the mutex is not taken
None == "none"          \* no ioctl, no conversion

ASSUME PpConstants == 0 \in Versions /\ {Free, None} \cap Tasks = {}

VARIABLES
  pp_lock,      \* the task that holds it, or Free
  pc, op,       \* where a task is, in which ioctl
  csc,          \* the matrix in an ioctl's own memory
  pp_csc,       \* the driver's matrix: [hi, lo], for COEF_123 and COEF_4
  pp_done,
  pp_status,    \* the interrupt status the handler saw
  regs,         \* the CSC registers: [hi, lo]
  job,          \* the task whose buffers the registers name
  engine,       \* "idle" or "run": is PP moving data?
  intr,         \* bits set in PP_INTRSTATUS
  enabled,      \* PP_INTRCNTL
  finished,     \* ghost: tasks whose last started conversion PP finished
  succeeded,    \* ghost: tasks whose last ioctl was a successful PP_CONVERT
  stuck         \* ghost: did the last reset fail?

hw == <<regs, job, engine, intr, enabled, finished>>
soft == <<pp_csc, pp_done, pp_status>>
ppvars == <<pp_lock, pc, op, csc, succeeded, soft, hw, stuck>>

Half == [hi : Versions, lo : Versions]
Whole(m) == m.hi = m.lo
BuiltIn == [hi |-> 0, lo |-> 0]

Goto(t, at) == pc' = [pc EXCEPT ![t] = at]

\* A step inside an ioctl...
Stay(t, at) == Goto(t, at) /\ UNCHANGED <<pp_lock, op>>

\* ...and its mutex_unlock and return.
Leave(t) == pp_lock' = Free /\ Goto(t, "user") /\ op' = [op EXCEPT ![t] = None]

-----------------------------------------------------------------------------
\* The ioctls: PP_CONVERT past its parameter checks, PP_SET_CSC, PP_GET_CSC.

Enter(t, what) ==
  /\ pc[t] = "user"
  /\ op' = [op EXCEPT ![t] = what]
  /\ succeeded' = succeeded \ {t}
  /\ Goto(t, "lock")
  /\ UNCHANGED <<pp_lock, soft, hw, stuck>>

PpConvert(t) == Enter(t, "convert") /\ csc' = [csc EXCEPT ![t] = BuiltIn]

PpSetCsc(t, v) == Enter(t, "set") /\ csc' = [csc EXCEPT ![t] = [hi |-> v, lo |-> v]]

PpGetCsc(t) == Enter(t, "get") /\ csc' = [csc EXCEPT ![t] = BuiltIn]

\* An ioctl that goes ahead without the mutex.
Lock_skipped(t) ==
  /\ pc[t] = "lock"
  /\ pp_lock' = t
  /\ Goto(t, "first")
  /\ UNCHANGED <<op, csc, succeeded, soft, hw, stuck>>

\* mutex_lock(&pp_lock)
Lock(t) ==
  /\ pc[t] = "lock"
  /\ pp_lock = Free
  /\ pp_lock' = t
  /\ Goto(t, "first")
  /\ UNCHANGED <<op, csc, succeeded, soft, hw, stuck>>

-----------------------------------------------------------------------------
\* The matrix is copied word by word.

SetCsc(t) ==
  /\ op[t] = "set"
  /\ \/ /\ pc[t] = "first"
        /\ pp_csc' = [pp_csc EXCEPT !.hi = csc[t].hi]
        /\ Stay(t, "second")
     \/ /\ pc[t] = "second"
        /\ pp_csc' = [pp_csc EXCEPT !.lo = csc[t].lo]
        /\ Leave(t)
  /\ UNCHANGED <<csc, succeeded, pp_done, pp_status, hw, stuck>>

GetCsc(t) ==
  /\ op[t] = "get"
  /\ \/ /\ pc[t] = "first"
        /\ csc' = [csc EXCEPT ![t].hi = pp_csc.hi]
        /\ Stay(t, "second")
     \/ /\ pc[t] = "second"
        /\ csc' = [csc EXCEPT ![t].lo = pp_csc.lo]
        /\ Leave(t)
  /\ UNCHANGED <<succeeded, soft, hw, stuck>>

-----------------------------------------------------------------------------
\* pp_hw_reset: kills the DMA, disables and clears the interrupts; or runs
\* into its bound or finds a wrong register value, and then nobody knows how
\* much of that the block has done.

ResetOk ==
  /\ engine' = "idle" /\ intr' = {} /\ enabled' = FALSE
  /\ stuck' = FALSE
  /\ UNCHANGED <<regs, job, finished>>

ResetFails ==
  /\ engine' \in {engine, "idle"} /\ intr' \in {intr, {}} /\ enabled' \in {enabled, FALSE}
  /\ stuck' = TRUE
  /\ UNCHANGED <<regs, job, finished>>

\* The outcome of the reset is ignored.
Reset_ignored(t) ==
  /\ pc[t] = "first" /\ op[t] = "convert"
  /\ ResetOk \/ ResetFails
  /\ Stay(t, "program")
  /\ UNCHANGED <<csc, succeeded, soft>>

\* pp_convert gives up when the block cannot be reset.
Reset(t) ==
  /\ pc[t] = "first" /\ op[t] = "convert"
  /\ \/ ResetOk /\ Stay(t, "program")
     \/ ResetFails /\ Leave(t)
  /\ UNCHANGED <<csc, succeeded, soft>>

\* Buffers, sizes, format and PP_CSC_COEF_123...
Program(t) ==
  /\ pc[t] = "program"
  /\ job' = t
  /\ regs' = [regs EXCEPT !.hi = pp_csc.hi]
  /\ Stay(t, "csc")
  /\ UNCHANGED <<csc, succeeded, soft, engine, intr, enabled, finished, stuck>>

\* The interrupts stay masked.
ProgramRest_masked(t) ==
  /\ pc[t] = "csc"
  /\ regs' = [regs EXCEPT !.lo = pp_csc.lo]
  /\ Stay(t, "clear")
  /\ UNCHANGED <<csc, succeeded, soft, job, engine, intr, enabled, finished, stuck>>

\* ...then PP_CSC_COEF_4, the resize table and PP_INTRCNTL.
ProgramRest(t) ==
  /\ pc[t] = "csc"
  /\ regs' = [regs EXCEPT !.lo = pp_csc.lo]
  /\ enabled' = TRUE
  /\ Stay(t, "clear")
  /\ UNCHANGED <<csc, succeeded, soft, job, engine, intr, finished, stuck>>

\* Only the status is cleared.
ClearDone_status(t) ==
  /\ pc[t] = "clear"
  /\ pp_status' = {}
  /\ Stay(t, "start")
  /\ UNCHANGED <<csc, succeeded, pp_csc, pp_done, hw, stuck>>

ClearDone(t) ==
  /\ pc[t] = "clear"
  /\ pp_status' = {} /\ pp_done' = FALSE
  /\ Stay(t, "start")
  /\ UNCHANGED <<csc, succeeded, pp_csc, hw, stuck>>

\* PP_EN
Start(t) ==
  /\ pc[t] = "start"
  /\ engine' = "run"
  /\ finished' = finished \ {t}
  /\ Stay(t, "wait")
  /\ UNCHANGED <<csc, succeeded, soft, regs, job, intr, enabled, stuck>>

\* wait_event_interruptible_timeout sees pp_done.
Woken(t) ==
  /\ pc[t] = "wait"
  /\ pp_done
  /\ IF "ERR" \in pp_status
       THEN Stay(t, "recover") /\ UNCHANGED succeeded
       ELSE Leave(t) /\ succeeded' = succeeded \cup {t}
  /\ UNCHANGED <<csc, soft, hw, stuck>>

\* A timeout or a signal that just gives up.
WaitFails_quits(t) ==
  /\ pc[t] = "wait"
  /\ ~pp_done
  /\ Leave(t)
  /\ UNCHANGED <<csc, succeeded, soft, hw, stuck>>

\* A wait without its timeout.
WaitFails_never(t) ==
  /\ pc[t] = "wait" /\ engine = "idle" /\ ~pp_done
  /\ Stay(t, "recover")
  /\ UNCHANGED <<csc, succeeded, soft, hw, stuck>>

\* It ends after 200 ms, or by a signal.
WaitFails(t) ==
  /\ pc[t] = "wait"
  /\ ~pp_done
  /\ Stay(t, "recover")
  /\ UNCHANGED <<csc, succeeded, soft, hw, stuck>>

\* The reset after a failure, whose outcome nobody looks at.
Recover(t) ==
  /\ pc[t] = "recover"
  /\ ResetOk \/ ResetFails
  /\ Leave(t)
  /\ UNCHANGED <<csc, succeeded, soft>>

-----------------------------------------------------------------------------
\* The PP block, and its interrupt handler.

FrameDone ==
  /\ engine = "run"
  /\ engine' = "idle"
  /\ intr' = intr \cup {"FRAME"}
  /\ finished' = finished \cup {job}
  /\ UNCHANGED <<pp_lock, pc, op, csc, succeeded, soft, regs, job, enabled, stuck>>

\* A bus error; the block may stop or carry on.
FrameError ==
  /\ engine = "run"
  /\ engine' \in {"run", "idle"}
  /\ intr' = intr \cup {"ERR"}
  /\ UNCHANGED <<pp_lock, pc, op, csc, succeeded, soft, regs, job, enabled, finished, stuck>>

pp_irq_handler ==
  /\ enabled /\ intr # {}
  /\ pp_status' = intr
  /\ pp_done' = TRUE
  /\ intr' = {}
  /\ UNCHANGED <<pp_lock, pc, op, csc, succeeded, pp_csc, regs, job, engine, enabled,
                 finished, stuck>>

-----------------------------------------------------------------------------
PpInit ==
  /\ pp_lock = Free
  /\ pc = [t \in Tasks |-> "user"]
  /\ op = [t \in Tasks |-> None]
  /\ csc = [t \in Tasks |-> BuiltIn]
  /\ pp_csc = BuiltIn
  /\ pp_done = FALSE /\ pp_status = {}
  /\ regs = BuiltIn
  /\ job = None /\ engine = "idle" /\ intr = {} /\ enabled = FALSE
  /\ finished = {} /\ succeeded = {}
  /\ stuck \in BOOLEAN

Begin(t) == PpConvert(t) \/ PpGetCsc(t) \/ \E v \in Versions : PpSetCsc(t, v)

Continue(t) ==
  \/ SetCsc(t) \/ GetCsc(t) \/ Reset(t) \/ Program(t) \/ ProgramRest(t)
  \/ ClearDone(t) \/ Start(t) \/ Woken(t) \/ WaitFails(t) \/ Recover(t)

PpNext ==
  \/ \E t \in Tasks : Begin(t) \/ Lock(t) \/ Continue(t)
  \/ FrameDone \/ FrameError \/ pp_irq_handler

PpSpec == PpInit /\ [][PpNext]_ppvars

\* Tasks are scheduled, interrupts served, and a kernel mutex is handed to its
\* waiters in turn.  Nothing is assumed of the PP block.
PpFair ==
  /\ PpSpec
  /\ WF_ppvars(pp_irq_handler)
  /\ \A t \in Tasks : SF_ppvars(Lock(t)) /\ WF_ppvars(Continue(t))

-----------------------------------------------------------------------------
\* Properties.

\* What the variables of the ioctls and of the block range over.
PpTypeOK ==
  /\ pp_lock \in Tasks \cup {Free}
  /\ pc \in [Tasks -> {"user", "lock", "first", "second", "program", "csc", "clear",
                       "start", "wait", "recover"}]
  /\ op \in [Tasks -> {None, "convert", "set", "get"}]
  /\ csc \in [Tasks -> Half]
  /\ pp_csc \in Half /\ regs \in Half
  /\ pp_done \in BOOLEAN /\ enabled \in BOOLEAN /\ stuck \in BOOLEAN
  /\ pp_status \subseteq {"FRAME", "ERR"} /\ intr \subseteq {"FRAME", "ERR"}
  /\ job \in Tasks \cup {None}
  /\ engine \in {"idle", "run"}
  /\ finished \subseteq Tasks /\ succeeded \subseteq Tasks

\* A conversion that reports success was finished by PP itself: no interrupt of an
\* earlier conversion that timed out, was interrupted or failed is taken for it
\* (pp_convert clears pp_done after the reset; pp_irq_handler).
OwnFrame == succeeded \subseteq finished

\* PP writes into a task's buffer only while that task is in pp_convert, however its
\* wait ended, unless the reset itself failed (pp_hw_reset: "Kills any in-progress
\* DMA").
QuietAfterReturn ==
  engine = "run" /\ ~stuck => job \in Tasks /\ pc[job] \in {"wait", "recover"}

\* The registers of a running conversion are never rewritten, even when the block
\* could not be stopped after an earlier failure (pp_convert's check of pp_hw_reset).
NoReprogramming ==
  [][<<job', regs'>> # <<job, regs>> => engine = "idle"]_ppvars

\* A conversion runs with one matrix, and PP_GET_CSC returns one: never the halves of
\* two, whatever PP_SET_CSC calls come in between.
CscWhole ==
  /\ engine = "run" => Whole(regs)
  /\ \A t \in Tasks : pc[t] = "user" => Whole(csc[t])

\* A task that waits after PP went idle has its interrupt coming, or sees pp_done.
NoLostInterrupt ==
  \A t \in Tasks : pc[t] = "wait" /\ engine = "idle" => pp_done \/ (enabled /\ intr # {})

\* Every PP ioctl returns, even when PP hangs and cannot be reset (the 200 ms wait,
\* the bounded reset, and an unlock on every path).
IoctlsReturn == \A t \in Tasks : pc[t] # "user" ~> pc[t] = "user"
=============================================================================
