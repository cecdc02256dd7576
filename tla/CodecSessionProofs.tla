------------------------- MODULE CodecSessionProofs -------------------------
(***************************************************************************)
(* Safety of the library's API for any number of threads, instances and    *)
(* polls, and for every set of troubles.                                   *)
(***************************************************************************)
EXTENDS CodecSession, WellFoundedInduction, TLAPS

\* The premises of the properties, by the troubles they exclude.
Intact == "kill" \notin trouble \/ "threads" \notin trouble
Polite == "pps" \notin trouble \/ "threads" \notin trouble
Unlocks == "nomem" \notin trouble \/ "encode" \notin trouble

\* Between LockVpu and UnlockVpu; a picture parameter set comes without.
Inside(t) == pc[t] \in {"body", "busywait", "spin"} /\ op[t] # "Pps"
Framing(t) == pc[t] \in {"poll", "sleep", "read"}
AtRest(t) == pc[t] = "user" /\ h[t] = None

\* Threads exist once the process is up; a handle is a slot of the thread's own, and
\* only calls that open have none.
Handles ==
  /\ proc # "up" => \A t \in Threads : AtRest(t)
  /\ enc # {} => "encode" \in trouble
  /\ \A t \in Threads :
       /\ h[t] # None => h[t] \in inUse
       /\ \A u \in Threads : t # u /\ h[t] # None => h[t] # h[u]

\* Where a thread is in which call.
Control ==
  \A t \in Threads :
    /\ pc[t] = "user" <=> op[t] = "none"
    /\ op[t] \in {"Open", "EncOpen"} => h[t] = None
    /\ op[t] = "EncOpen" => "encode" \in trouble
    /\ op[t] \notin {"none", "Open", "EncOpen", "Version"} => h[t] # None
    /\ Framing(t) => op[t] = "Start"
    /\ pc[t] = "spin" => op[t] \in {"Command", "Pps"}
    /\ op[t] = "Pps" => pc[t] = "spin" /\ "pps" \in trouble
    /\ pc[t] \in {"poll", "sleep"} => polls[t] <= MaxPolls

\* Without "threads" only one thread does anything.
Single ==
  "threads" \notin trouble => \A t, u \in Threads : t # u => AtRest(t) \/ AtRest(u)

\* Who holds the lock, and for whom pendingInst is set.
Locked ==
  Intact =>
    /\ \A t \in Threads :
         /\ Inside(t) => api_lock = t
         /\ Framing(t) => api_lock = t /\ pendingInst = h[t]
         /\ op[t] = "Close" => pendingInst # h[t]
         /\ op[t] = "Open2" /\ "kill" \notin trouble => pendingInst # h[t]
    /\ "kill" \notin trouble /\ pendingInst # None =>
         \E t \in Threads : api_lock = t /\ h[t] = pendingInst /\ ~Inside(t)

\* The lock is released by its holder, or the holder's frame will release it; who
\* opens or closes does not hold it yet.
Released ==
  Intact /\ Unlocks /\ proc # "dead" => \A t \in Threads :
    /\ api_lock = t => Inside(t) \/ (h[t] # None /\ pendingInst = h[t])
    /\ pc[t] = "lock" /\ op[t] \in {"Open", "EncOpen", "Open2", "Close"} => api_lock # t

\* All slots in use are some thread's.
Owned ==
  Intact /\ Unlocks /\ "timeout" \notin trouble /\ proc # "dead" =>
    \A s \in inUse : \E t \in Threads : h[t] = s

\* Wake-ups that are left over: the line and the flag.
Leftover == (IF irq THEN 1 ELSE 0) + (IF codec_done THEN 1 ELSE 0)

\* What runs while a frame is waited for is this frame, and the loop outlasts the
\* wake-ups that are left over.
Waiting ==
  Intact /\ Polite => \A t \in Threads :
    /\ pc[t] \in {"poll", "sleep"} => cmd \in {"PIC_RUN", "idle"}
    /\ pc[t] = "sleep" /\ cmd = "idle" => irq \/ codec_done
    /\ "wedge" \notin trouble =>
         /\ pc[t] \in {"poll", "sleep"} /\ cmd # "idle" => polls[t] + Leftover <= MaxPolls
         /\ pc[t] = "read" => cmd = "idle"

\* A command that runs is waited for.
Attended ==
  Intact /\ Polite /\ trouble \cap {"abandon", "careless", "wedge"} = {} /\ cmd # "idle" =>
    proc = "boot" \/ \E t \in Threads : pc[t] \in {"busywait", "spin", "poll", "sleep"}

\* The inductive invariant.
SInv ==
  /\ STypeOK /\ Handles /\ Control /\ Single /\ Locked /\ Released /\ Owned
  /\ Waiting /\ Attended

-----------------------------------------------------------------------------
\* GetCodecInstance searches the pool from its start and finds a slot that is free.
LEMMA FirstFree ==
  ASSUME NEW S, S \subseteq Slots, S # {}
  PROVE  (CHOOSE s \in S : \A r \in S : s <= r) \in S
<1>1. S \subseteq Nat
  BY SessionConstants DEF Slots
<1> DEFINE less == {p \in Nat \X Nat : p[1] < p[2]}
<1>2. IsWellFoundedOn(less, Nat)
  BY NatLessThanWellFounded DEF OpToRel
<1>3. PICK s \in S : \A r \in S : <<r, s>> \notin less
  BY <1>1, <1>2, WFMin
<1>4. ASSUME NEW r \in S PROVE s <= r
  <2>1. r \in Nat /\ s \in Nat /\ <<r, s>> \in Nat \X Nat
    BY <1>1
  <2>2. ~(<<r, s>>[1] < <<r, s>>[2])
    BY <1>3, <2>1
  <2> QED
    BY <2>1, <2>2
<1> QED
  BY <1>4

\* SInv holds at first.
LEMMA SInitInv == SInit => SInv
<1> SUFFICES ASSUME SInit PROVE SInv
  OBVIOUS
<1>1. STypeOK
  <2>1. trouble \subseteq Trouble
    BY SessionConstants DEF SInit
  <2>2. pc \in [Threads -> PC] /\ polls \in [Threads -> 0..MaxPolls + 1]
    BY SessionConstants DEF SInit, PC
  <2> QED
    BY <2>1, <2>2 DEF SInit, STypeOK
<1>4. Handles /\ Control /\ Single
  BY SessionConstants DEF SInit, Handles, Control, Single, AtRest, Framing, None
<1>2. Locked /\ Released /\ Owned
  BY SessionConstants DEF SInit, Locked, Released, Owned, Inside, Framing, None, Free
<1>3. Waiting /\ Attended
  BY DEF SInit, Waiting, Attended
<1> QED
  BY <1>1, <1>2, <1>3, <1>4 DEF SInv

\* A call begins: it changes nothing but the frame buffers that are set.
LEMMA EnterInv ==
  ASSUME SInv, NEW t \in Threads, NEW c \in Calls \ {"Open2", "Pps"}, Call(t, c), fbs' \subseteq Slots,
         UNCHANGED <<trouble, proc, api_lock, inUse, enc, info, pendingInst, h, polls, hw>>,
         pc[t] = "user" \/ ("careless" \in trouble /\ pc[t] \in {"poll", "read"} /\ c # "Close"),
         c \notin {"Open", "EncOpen", "Version"} => h[t] \in inUse,
         c \in {"Open", "EncOpen"} => h[t] = None,
         c \in {"Open", "EncOpen", "Version"} =>
           /\ pc[t] = "user" /\ alive
           /\ "threads" \in trouble \/ \A u \in Threads \ {t} : AtRest(u),
         c = "Close" => pendingInst # h[t], c = "EncOpen" => "encode" \in trouble
  PROVE  SInv'
<1> USE SessionConstants DEF SInv, Call, Goto, hw, None, alive, Calls, PC, Slots
<1>1. STypeOK'
  BY DEF STypeOK
<1>2. Handles'
  BY DEF STypeOK, Handles, AtRest
<1>3. Control'
  BY DEF STypeOK, Control, Framing
<1>4. Single'
  BY DEF STypeOK, Single, AtRest
<1>5. Locked'
  BY DEF STypeOK, Locked, Inside, Framing, Intact, Handles, Control, AtRest
<1>6. Released'
  BY DEF STypeOK, Released, Inside, Intact, Unlocks, Handles, Control, AtRest, Framing
<1>7. Owned'
  BY DEF STypeOK, Owned, Intact, Unlocks
<1>8. Waiting'
  BY DEF STypeOK, Waiting, Leftover, Intact, Polite
<1>9. Attended'
  BY DEF STypeOK, Attended, Intact, Polite
<1> QED
  BY <1>1, <1>2, <1>3, <1>4, <1>5, <1>6, <1>7, <1>8, <1>9

\* vpu_DecClose begins, and drops a frame of its own with the lock.
LEMMA CloseInv ==
  ASSUME SInv, NEW t \in Threads, DecClose(t)
  PROVE  SInv'
<1> USE SessionConstants DEF SInv, DecClose, Call, Goto, UnlockVpu, hw, None, decoders, Calls, PC, Slots
<1>1. STypeOK'
  BY DEF STypeOK
<1>2. Handles'
  BY DEF STypeOK, Handles, AtRest, Control
<1>3. Control'
  BY DEF STypeOK, Control, Framing, Handles, AtRest
<1>4. Single'
  BY DEF STypeOK, Single, AtRest, Handles
<1>5. Locked'
  BY DEF STypeOK, Locked, Inside, Framing, Intact, Handles, Control, AtRest, Single
<1>6. Released'
  BY DEF STypeOK, Released, Inside, Intact, Unlocks, Handles, Control, AtRest, Framing, Free, Single, Locked
<1>7. Owned'
  BY DEF STypeOK, Owned, Intact, Unlocks
<1>8. Waiting'
  BY DEF STypeOK, Waiting, Leftover, Intact, Polite, Control, Framing
<1>9. Attended'
  BY DEF STypeOK, Attended, Intact, Polite
<1> QED
  BY <1>1, <1>2, <1>3, <1>4, <1>5, <1>6, <1>7, <1>8, <1>9

\* DEC_SET_PPS_RBSP
LEMMA SetPpsInv ==
  ASSUME SInv, NEW t \in Threads, SetPps(t)
  PROVE  SInv'
<1> USE SessionConstants DEF SInv, SetPps, BitIssueCommand, Goto, shm, None, decoders, Calls, PC, Commands, busy
<1>1. STypeOK'
  BY DEF STypeOK
<1>2. Handles'
  BY DEF STypeOK, Handles, AtRest, Control, Slots
<1>3. Control'
  BY DEF STypeOK, Control, Framing, Handles, AtRest, Slots
<1>4. Single'
  BY DEF STypeOK, Single, AtRest, Handles, Slots
<1>5. Locked'
  BY DEF STypeOK, Locked, Inside, Framing, Intact
<1>6. Released'
  BY DEF STypeOK, Released, Inside, Intact, Unlocks, Handles, Control, AtRest, Framing, Locked, Single
<1>7. Owned'
  BY DEF STypeOK, Owned, Intact, Unlocks
<1>8. Waiting'
  BY DEF STypeOK, Waiting, Leftover, Intact, Polite, Handles, Control, AtRest, Framing, Slots, Locked, Single, Inside
<1>9. Attended'
  BY DEF STypeOK, Attended, Intact, Polite
<1> QED
  BY <1>1, <1>2, <1>3, <1>4, <1>5, <1>6, <1>7, <1>8, <1>9

\* LockVpu succeeds.
LEMMA LockInv ==
  ASSUME SInv, NEW t \in Threads, LockVpu(t)
  PROVE  SInv'
<1> USE SessionConstants DEF SInv, LockVpu, Goto, shm, hw, None, PC, Free
<1>1. STypeOK'
  BY DEF STypeOK
<1>2. Handles'
  BY DEF STypeOK, Handles, AtRest
<1>3. Control'
  BY DEF STypeOK, Control, Framing
<1>4. Single'
  BY DEF STypeOK, Single, AtRest
<1>5. Locked'
  BY DEF STypeOK, Locked, Inside, Framing, Intact, Handles, Control, AtRest, Single, Released
<1>6. Released'
  BY DEF STypeOK, Released, Inside, Intact, Unlocks, Handles, Control, AtRest, Framing
<1>7. Owned'
  BY DEF STypeOK, Owned, Intact, Unlocks, Handles, Control, AtRest, Framing
<1>8. Waiting'
  BY DEF STypeOK, Waiting, Leftover, Intact, Polite
<1>9. Attended'
  BY DEF STypeOK, Attended, Intact, Polite
<1> QED
  BY <1>1, <1>2, <1>3, <1>4, <1>5, <1>6, <1>7, <1>8, <1>9

\* LockVpu gives up.
LEMMA TimeoutInv ==
  ASSUME SInv, NEW t \in Threads, LockTimeout(t)
  PROVE  SInv'
<1> USE SessionConstants DEF SInv, LockTimeout, Return, Goto, shm, hw, None, PC, Calls, Free
<1>1. STypeOK'
  BY DEF STypeOK
<1>2. Handles'
  BY DEF STypeOK, Handles, AtRest
<1>3. Control'
  BY DEF STypeOK, Control, Framing
<1>4. Single'
  BY DEF STypeOK, Single, AtRest
<1>5. Locked'
  BY DEF STypeOK, Locked, Inside, Framing, Intact, Handles, Control, AtRest
<1>6. Released'
  BY DEF STypeOK, Released, Inside, Intact, Unlocks, Handles, Control, AtRest, Framing
<1>7. Owned'
  BY DEF STypeOK, Owned, Intact, Unlocks, Released, Control, Handles
<1>8. Waiting'
  BY DEF STypeOK, Waiting, Leftover, Intact, Polite
<1>9. Attended'
  BY DEF STypeOK, Attended, Intact, Polite
<1> QED
  BY <1>1, <1>2, <1>3, <1>4, <1>5, <1>6, <1>7, <1>8, <1>9

\* A call returns without having changed anything.
LEMMA LeaveInv ==
  ASSUME SInv, NEW t \in Threads, pc[t] = "body", op[t] # "Close",
         Return(t), UnlockVpu, UNCHANGED <<trouble, proc, shm, h, polls, hw>>
  PROVE  SInv'
<1> USE SessionConstants DEF SInv, Return, Goto, UnlockVpu, shm, hw, None, PC, Calls, Free
<1>1. STypeOK'
  BY DEF STypeOK
<1>2. Handles'
  BY DEF STypeOK, Handles, AtRest
<1>3. Control'
  BY DEF STypeOK, Control, Framing
<1>4. Single'
  BY DEF STypeOK, Single, AtRest
<1>5. Locked'
  BY DEF STypeOK, Locked, Inside, Framing, Intact, Handles, Control, AtRest, Single
<1>6. Released'
  BY DEF STypeOK, Released, Inside, Intact, Unlocks
<1>7. Owned'
  BY DEF STypeOK, Owned, Intact, Unlocks
<1>8. Waiting'
  BY DEF STypeOK, Waiting, Leftover, Intact, Polite
<1>9. Attended'
  BY DEF STypeOK, Attended, Intact, Polite
<1> QED
  BY <1>1, <1>2, <1>3, <1>4, <1>5, <1>6, <1>7, <1>8, <1>9

\* A slot is taken, or there is none.
LEMMA InstanceInv ==
  ASSUME SInv, NEW t \in Threads, GetCodecInstance(t)
  PROVE  SInv'
<1> USE SessionConstants DEF SInv
<1>1. CASE Slots \subseteq inUse
  BY <1>1, LeaveInv DEF GetCodecInstance, UnlockVpu, shm
<1>2. CASE ~(Slots \subseteq inUse)
  <2> DEFINE s == CHOOSE s \in Slots \ inUse : \A r \in Slots \ inUse : s <= r
  <2>1. s \in Slots /\ s \notin inUse
    BY <1>2, FirstFree
  <2>2. /\ pc[t] = "body" /\ op[t] \in {"Open", "EncOpen"}
        /\ api_lock' = Free
        /\ inUse' = inUse \cup {s}
        /\ enc' = IF op[t] = "EncOpen" THEN enc \cup {s} ELSE enc
        /\ info' = info \ {s} /\ fbs' = fbs \ {s}
        /\ h' = [h EXCEPT ![t] = s]
        /\ pc' = [pc EXCEPT ![t] = "lock"] /\ op' = [op EXCEPT ![t] = "Open2"]
        /\ UNCHANGED <<trouble, proc, pendingInst, polls, cmd, irq, codec_done>>
    BY <1>2 DEF GetCodecInstance, UnlockVpu, Call, Goto, hw
  <2> HIDE DEF s
  <2>3. s # None
    BY <2>1 DEF Slots, None
  <2>4. STypeOK'
    BY <2>1, <2>2 DEF STypeOK, PC, Calls
  <2>5. Handles'
    BY <2>1, <2>2, <2>3 DEF STypeOK, Handles, Control, AtRest
  <2>6. Control'
    BY <2>2, <2>3 DEF STypeOK, Control, Framing
  <2>7. Single'
    BY <2>2 DEF STypeOK, Single, AtRest
  <2>8. Locked'
    BY <2>1, <2>2, <2>3 DEF STypeOK, Locked, Handles, Control, Inside, Framing, Intact
  <2>9. Released'
    BY <2>2 DEF STypeOK, Released, Control, Inside, Intact, Unlocks, Free
  <2>10. Owned'
    BY <2>2, <2>3 DEF STypeOK, Owned, Handles, Control, Intact, Unlocks, Slots, None
  <2>11. Waiting' /\ Attended'
    BY <2>2 DEF STypeOK, Waiting, Leftover, Attended, Intact, Polite
  <2> QED
    BY <2>4, <2>5, <2>6, <2>7, <2>8, <2>9, <2>10, <2>11
<1> QED
  BY <1>1, <1>2

\* The encoder's start fails.
LEMMA StartFailsInv ==
  ASSUME SInv, NEW t \in Threads, EncStartFails(t)
  PROVE  SInv'
<1> USE SessionConstants DEF SInv, EncStartFails, Return, Goto, shm, hw, None, PC, Calls
<1>1. STypeOK'
  BY DEF STypeOK
<1>2. Handles'
  BY DEF STypeOK, Handles, AtRest
<1>3. Control'
  BY DEF STypeOK, Control, Framing
<1>4. Single'
  BY DEF STypeOK, Single, AtRest
<1>5. Locked'
  BY DEF STypeOK, Locked, Inside, Framing, Intact, Handles, Control, AtRest
<1>6. Released'
  BY DEF STypeOK, Released, Inside, Intact, Unlocks, Handles, Control, AtRest, Framing
<1>7. Owned'
  BY DEF STypeOK, Owned, Intact, Unlocks
<1>8. Waiting'
  BY DEF STypeOK, Waiting, Leftover, Intact, Polite, Handles, Control, AtRest, Framing
<1>9. Attended'
  BY DEF STypeOK, Attended, Intact, Polite
<1> QED
  BY <1>1, <1>2, <1>3, <1>4, <1>5, <1>6, <1>7, <1>8, <1>9

\* A command is issued, to be waited for with the lock held.
LEMMA IssueInv ==
  ASSUME SInv, NEW t \in Threads, NEW c \in Commands, NEW at \in {"busywait", "spin"}, pc[t] = "body",
         BitIssueCommand(c), Goto(t, at), at = "spin" => op[t] = "Command",
         UNCHANGED <<trouble, proc, api_lock, shm, op, h, polls>>
  PROVE  SInv'
<1> USE SessionConstants DEF SInv, BitIssueCommand, Goto, shm, None, PC, Commands
<1>1. STypeOK'
  BY DEF STypeOK
<1>2. Handles'
  BY DEF STypeOK, Handles, AtRest
<1>3. Control'
  BY DEF STypeOK, Control, Framing
<1>4. Single'
  BY DEF STypeOK, Single, AtRest
<1>5. Locked'
  BY DEF STypeOK, Locked, Inside, Framing, Intact
<1>6. Released'
  BY DEF STypeOK, Released, Inside, Intact, Unlocks
<1>7. Owned'
  BY DEF STypeOK, Owned, Intact, Unlocks
<1>8. Waiting'
  BY DEF STypeOK, Waiting, Leftover, Intact, Polite, Handles, Control, AtRest, Framing, Locked, Single, Inside
<1>9. Attended'
  BY DEF STypeOK, Attended, Intact, Polite
<1> QED
  BY <1>1, <1>2, <1>3, <1>4, <1>5, <1>6, <1>7, <1>8, <1>9

\* WaitBitBusyClear returns.
LEMMA BusyClearInv ==
  ASSUME SInv, NEW t \in Threads, WaitBitBusyClear(t)
  PROVE  SInv'
<1> USE SessionConstants DEF SInv, WaitBitBusyClear, SeqInitDone, FreeInstance, Return, Goto, UnlockVpu, shm, hw, None, PC, Calls, Free, busy
<1>1. STypeOK'
  BY DEF STypeOK, Control, Handles
<1>2. Handles'
  BY DEF STypeOK, Handles, AtRest
<1>3. Control'
  BY DEF STypeOK, Control, Framing
<1>4. Single'
  BY DEF STypeOK, Single, AtRest
<1>5. Locked'
  BY DEF STypeOK, Locked, Inside, Framing, Intact, Handles, Control, AtRest, Single
<1>6. Released'
  BY DEF STypeOK, Released, Inside, Intact, Unlocks, Handles, Control, AtRest, Framing
<1>7. Owned'
  BY DEF STypeOK, Owned, Intact, Unlocks, Handles, Control, AtRest, Framing
<1>8. Waiting'
  BY DEF STypeOK, Waiting, Leftover, Intact, Polite
<1>9. Attended'
  BY DEF STypeOK, Attended, Intact, Polite
<1> QED
  BY <1>1, <1>2, <1>3, <1>4, <1>5, <1>6, <1>7, <1>8, <1>9

\* An unbounded wait ends.
LEMMA SpinInv ==
  ASSUME SInv, NEW t \in Threads, Spin(t)
  PROVE  SInv'
<1> USE SessionConstants DEF SInv, Spin, Return, Goto, UnlockVpu, shm, hw, None, PC, Calls, Free, busy
<1>1. STypeOK'
  BY DEF STypeOK
<1>2. Handles'
  BY DEF STypeOK, Handles, AtRest
<1>3. Control'
  BY DEF STypeOK, Control, Framing
<1>4. Single'
  BY DEF STypeOK, Single, AtRest
<1>5. Locked'
  BY DEF STypeOK, Locked, Inside, Framing, Intact, Handles, Control, AtRest, Single
<1>6. Released'
  BY DEF STypeOK, Released, Inside, Intact, Unlocks, Handles, Control, AtRest, Framing, Locked
<1>7. Owned'
  BY DEF STypeOK, Owned, Intact, Unlocks
<1>8. Waiting'
  BY DEF STypeOK, Waiting, Leftover, Intact, Polite, Handles, Control, AtRest, Framing
<1>9. Attended'
  BY DEF STypeOK, Attended, Intact, Polite
<1> QED
  BY <1>1, <1>2, <1>3, <1>4, <1>5, <1>6, <1>7, <1>8, <1>9

\* A frame is started.
LEMMA StartInv ==
  ASSUME SInv, NEW t \in Threads, StartPicRun(t)
  PROVE  SInv'
<1> USE SessionConstants DEF SInv, StartPicRun, BitIssueCommand, Goto, None, PC, Commands
<1>1. STypeOK'
  BY DEF STypeOK, Control, Handles, Slots
<1>2. Handles'
  BY DEF STypeOK, Handles, AtRest
<1>3. Control'
  BY DEF STypeOK, Control, Framing
<1>4. Single'
  BY DEF STypeOK, Single, AtRest
<1>5. Locked'
  BY DEF STypeOK, Locked, Inside, Framing, Intact, Handles, Control, AtRest, Single
<1>6. Released'
  BY DEF STypeOK, Released, Inside, Intact, Unlocks, Handles, Control, AtRest, Framing, Locked
<1>7. Owned'
  BY DEF STypeOK, Owned, Intact, Unlocks
<1>8. Waiting'
  BY DEF STypeOK, Waiting, Leftover, Intact, Polite, Handles, Control, AtRest, Framing, Locked, Single, Inside
<1>9. Attended'
  BY DEF STypeOK, Attended, Intact, Polite
<1> QED
  BY <1>1, <1>2, <1>3, <1>4, <1>5, <1>6, <1>7, <1>8, <1>9

\* vpu_IsBusy
LEMMA IsBusyInv ==
  ASSUME SInv, NEW t \in Threads, IsBusy(t)
  PROVE  SInv'
<1> USE SessionConstants DEF SInv, IsBusy, Goto, shm, hw, None, PC, busy
<1>1. STypeOK'
  BY DEF STypeOK
<1>2. Handles'
  BY DEF STypeOK, Handles, AtRest
<1>3. Control'
  BY DEF STypeOK, Control, Framing
<1>4. Single'
  BY DEF STypeOK, Single, AtRest
<1>5. Locked'
  BY DEF STypeOK, Locked, Inside, Framing, Intact
<1>6. Released'
  BY DEF STypeOK, Released, Inside, Intact, Unlocks
<1>7. Owned'
  BY DEF STypeOK, Owned, Intact, Unlocks
<1>8. Waiting'
  BY DEF STypeOK, Waiting, Leftover, Intact, Polite
<1>9. Attended'
  BY DEF STypeOK, Attended, Intact, Polite
<1> QED
  BY <1>1, <1>2, <1>3, <1>4, <1>5, <1>6, <1>7, <1>8, <1>9

\* WAIT4INT succeeds.
LEMMA WokenInv ==
  ASSUME SInv, NEW t \in Threads, Wait4Int(t)
  PROVE  SInv'
<1> USE SessionConstants DEF SInv, Wait4Int, CountPoll, Goto, shm, None, PC
<1>1. STypeOK'
  <2>1. pc' \in [Threads -> PC] /\ op' \in [Threads -> Calls \cup {"none"}]
    BY DEF STypeOK
  <2>2. h' \in [Threads -> Slots \cup {None}]
    BY DEF STypeOK
  <2>3. polls' \in [Threads -> 0..MaxPolls + 1]
    BY DEF STypeOK, Control
  <2>4. cmd' \in Commands \cup {"idle"} /\ irq' \in BOOLEAN /\ codec_done' \in BOOLEAN
    BY DEF STypeOK
  <2> QED
    BY <2>1, <2>2, <2>3, <2>4 DEF STypeOK
<1>2. Handles'
  BY DEF STypeOK, Handles, AtRest
<1>3. Control'
  BY DEF STypeOK, Control, Framing
<1>4. Single'
  BY DEF STypeOK, Single, AtRest
<1>5. Locked'
  BY DEF STypeOK, Locked, Inside, Framing, Intact
<1>6. Released'
  BY DEF STypeOK, Released, Inside, Intact, Unlocks
<1>7. Owned'
  BY DEF STypeOK, Owned, Intact, Unlocks
<1>8. Waiting'
  BY DEF STypeOK, Waiting, Leftover, Intact, Polite, Control, Locked, Framing
<1>9. Attended'
  BY DEF STypeOK, Attended, Intact, Polite, Control, Waiting, Leftover
<1> QED
  BY <1>1, <1>2, <1>3, <1>4, <1>5, <1>6, <1>7, <1>8, <1>9

\* WAIT4INT runs into its timeout.
LEMMA WaitTimeoutInv ==
  ASSUME SInv, NEW t \in Threads, Wait4IntTimeout(t)
  PROVE  SInv'
<1> USE SessionConstants DEF SInv, Wait4IntTimeout, CountPoll, Goto, shm, hw, None, PC
<1>1. STypeOK'
  BY DEF STypeOK, Control
<1>2. Handles'
  BY DEF STypeOK, Handles, AtRest
<1>3. Control'
  BY DEF STypeOK, Control, Framing
<1>4. Single'
  BY DEF STypeOK, Single, AtRest
<1>5. Locked'
  BY DEF STypeOK, Locked, Inside, Framing, Intact
<1>6. Released'
  BY DEF STypeOK, Released, Inside, Intact, Unlocks
<1>7. Owned'
  BY DEF STypeOK, Owned, Intact, Unlocks
<1>8. Waiting'
  BY DEF STypeOK, Waiting, Leftover, Intact, Polite
<1>9. Attended'
  BY DEF STypeOK, Attended, Intact, Polite
<1> QED
  BY <1>1, <1>2, <1>3, <1>4, <1>5, <1>6, <1>7, <1>8, <1>9

\* The results are read.
LEMMA OutputInv ==
  ASSUME SInv, NEW t \in Threads, pc[t] = "read", GetOutput(t)
  PROVE  SInv'
<1> USE SessionConstants DEF SInv, GetOutput, Return, Goto, UnlockVpu, hw, None, PC, Calls, Free, Slots
<1>1. STypeOK'
  BY DEF STypeOK
<1>2. Handles'
  BY DEF STypeOK, Handles, AtRest
<1>3. Control'
  BY DEF STypeOK, Control, Framing
<1>4. Single'
  BY DEF STypeOK, Single, AtRest
<1>5. Locked'
  BY DEF STypeOK, Locked, Inside, Framing, Intact, Handles, Control, AtRest, Single
<1>6. Released'
  BY DEF STypeOK, Released, Inside, Intact, Unlocks, Handles, Control, AtRest, Framing, Locked
<1>7. Owned'
  BY DEF STypeOK, Owned, Intact, Unlocks
<1>8. Waiting'
  BY DEF STypeOK, Waiting, Leftover, Intact, Polite
<1>9. Attended'
  BY DEF STypeOK, Attended, Intact, Polite
<1> QED
  BY <1>1, <1>2, <1>3, <1>4, <1>5, <1>6, <1>7, <1>8, <1>9

\* An instance without a sequence is freed.
LEMMA CloseUnusedInv ==
  ASSUME SInv, NEW t \in Threads, CloseUnused(t)
  PROVE  SInv'
<1> USE SessionConstants DEF SInv, CloseUnused, FreeInstance, Return, Goto, UnlockVpu, shm, hw, None, PC, Calls, Free
<1>1. STypeOK'
  BY DEF STypeOK
<1>2. Handles'
  BY DEF STypeOK, Handles, AtRest
<1>3. Control'
  BY DEF STypeOK, Control, Framing
<1>4. Single'
  BY DEF STypeOK, Single, AtRest
<1>5. Locked'
  BY DEF STypeOK, Locked, Inside, Framing, Intact, Handles, Control, AtRest, Single
<1>6. Released'
  BY DEF STypeOK, Released, Inside, Intact, Unlocks
<1>7. Owned'
  BY DEF STypeOK, Owned, Intact, Unlocks
<1>8. Waiting'
  BY DEF STypeOK, Waiting, Leftover, Intact, Polite
<1>9. Attended'
  BY DEF STypeOK, Attended, Intact, Polite
<1> QED
  BY <1>1, <1>2, <1>3, <1>4, <1>5, <1>6, <1>7, <1>8, <1>9

\* The BIT processor completes a command.
LEMMA DoneInv ==
  ASSUME SInv, CommandDone
  PROVE  SInv'
<1> USE SessionConstants DEF SInv, CommandDone, shm, None, busy, Commands
<1>1. STypeOK'
  BY DEF STypeOK
<1>2. Handles'
  BY DEF STypeOK, Handles, AtRest
<1>3. Control'
  BY DEF STypeOK, Control, Framing
<1>4. Single'
  BY DEF STypeOK, Single, AtRest
<1>5. Locked'
  BY DEF STypeOK, Locked, Inside, Framing, Intact
<1>6. Released'
  BY DEF STypeOK, Released, Inside, Intact, Unlocks
<1>7. Owned'
  BY DEF STypeOK, Owned, Intact, Unlocks
<1>8. Waiting'
  BY DEF STypeOK, Waiting, Leftover, Intact, Polite
<1>9. Attended'
  BY DEF STypeOK, Attended, Intact, Polite
<1> QED
  BY <1>1, <1>2, <1>3, <1>4, <1>5, <1>6, <1>7, <1>8, <1>9

\* The interrupt is served.
LEMMA IrqInv ==
  ASSUME SInv, vpu_irq_handler
  PROVE  SInv'
<1> USE SessionConstants DEF SInv, vpu_irq_handler, shm, None
<1>1. STypeOK'
  BY DEF STypeOK
<1>2. Handles'
  BY DEF STypeOK, Handles, AtRest
<1>3. Control'
  BY DEF STypeOK, Control, Framing
<1>4. Single'
  BY DEF STypeOK, Single, AtRest
<1>5. Locked'
  BY DEF STypeOK, Locked, Inside, Framing, Intact
<1>6. Released'
  BY DEF STypeOK, Released, Inside, Intact, Unlocks
<1>7. Owned'
  BY DEF STypeOK, Owned, Intact, Unlocks
<1>8. Waiting'
  BY DEF STypeOK, Waiting, Leftover, Intact, Polite
<1>9. Attended'
  BY DEF STypeOK, Attended, Intact, Polite
<1> QED
  BY <1>1, <1>2, <1>3, <1>4, <1>5, <1>6, <1>7, <1>8, <1>9

\* The process is killed.
LEMMA KillInv ==
  ASSUME SInv, Kill
  PROVE  SInv'
<1> USE SessionConstants DEF SInv, Kill, shm, None, PC
<1>1. STypeOK'
  <2>1. pc' \in [Threads -> PC] /\ op' \in [Threads -> Calls \cup {"none"}]
    BY DEF STypeOK
  <2>2. h' \in [Threads -> Slots \cup {None}]
    BY DEF STypeOK
  <2>3. polls' \in [Threads -> 0..MaxPolls + 1]
    BY DEF STypeOK, Control
  <2>4. cmd' \in Commands \cup {"idle"} /\ irq' \in BOOLEAN /\ codec_done' \in BOOLEAN
    BY DEF STypeOK
  <2> QED
    BY <2>1, <2>2, <2>3, <2>4 DEF STypeOK
<1>2. Handles'
  BY DEF STypeOK, Handles, AtRest
<1>3. Control'
  BY DEF STypeOK, Control, Framing
<1>4. Single'
  BY DEF STypeOK, Single, AtRest
<1>5. Locked'
  BY DEF STypeOK, Locked, Inside, Framing, Intact, Handles, Control, AtRest
<1>6. Released'
  BY DEF STypeOK, Released, Inside, Intact, Unlocks
<1>7. Owned'
  BY DEF STypeOK, Owned, Intact, Unlocks
<1>8. Waiting'
  BY DEF STypeOK, Waiting, Leftover, Intact, Polite
<1>9. Attended'
  BY DEF STypeOK, Attended, Intact, Polite
<1> QED
  BY <1>1, <1>2, <1>3, <1>4, <1>5, <1>6, <1>7, <1>8, <1>9

\* A new process initialises the share memory.
LEMMA RespawnInv ==
  ASSUME SInv, Respawn
  PROVE  SInv'
<1> USE SessionConstants DEF SInv, Respawn, hw, None, Free
<1>1. STypeOK'
  BY DEF STypeOK
<1>2. Handles'
  BY DEF STypeOK, Handles, AtRest
<1>3. Control'
  BY DEF STypeOK, Control, Framing
<1>4. Single'
  BY DEF STypeOK, Single, AtRest
<1>5. Locked'
  BY DEF STypeOK, Locked, Inside, Framing, Intact, Handles, AtRest, Control
<1>6. Released'
  BY DEF STypeOK, Released, Inside, Intact, Unlocks
<1>7. Owned'
  BY DEF STypeOK, Owned, Intact, Unlocks
<1>8. Waiting'
  BY DEF STypeOK, Waiting, Leftover, Intact, Polite
<1>9. Attended'
  BY DEF STypeOK, Attended, Intact, Polite
<1> QED
  BY <1>1, <1>2, <1>3, <1>4, <1>5, <1>6, <1>7, <1>8, <1>9

\* The firmware is started.
LEMMA BootInv ==
  ASSUME SInv, NoFirmware \/ VpuInit \/ VpuInitDone
  PROVE  SInv'
<1> USE SessionConstants DEF SInv, NoFirmware, VpuInit, VpuInitDone, BitIssueCommand, shm, hw, None, Commands, busy
<1>1. STypeOK'
  BY DEF STypeOK
<1>2. Handles'
  BY DEF STypeOK, Handles, AtRest
<1>3. Control'
  BY DEF STypeOK, Control, Framing
<1>4. Single'
  BY DEF STypeOK, Single, AtRest
<1>5. Locked'
  BY DEF STypeOK, Locked, Inside, Framing, Intact
<1>6. Released'
  BY DEF STypeOK, Released, Inside, Intact, Unlocks
<1>7. Owned'
  BY DEF STypeOK, Owned, Intact, Unlocks
<1>8. Waiting'
  BY DEF STypeOK, Waiting, Leftover, Intact, Polite, Handles, AtRest, Control
<1>9. Attended'
  BY DEF STypeOK, Attended, Intact, Polite
<1> QED
  BY <1>1, <1>2, <1>3, <1>4, <1>5, <1>6, <1>7, <1>8, <1>9

-----------------------------------------------------------------------------
\* Every step keeps SInv.
LEMMA SNextInv == SInv /\ [SNext]_svars => SInv'
<1> SUFFICES ASSUME SInv, [SNext]_svars PROVE SInv'
  OBVIOUS
<1>1. ASSUME NEW t \in Threads, Begin(t) PROVE SInv'
  <2>1. CASE DecClose(t) \/ SetPps(t)
    BY <2>1, CloseInv, SetPpsInv
  <2>2. CASE DecOpen(t) \/ EncOpen(t) \/ GetVersionInfo(t)
    <3>1. PICK c \in {"Open", "EncOpen", "Version"} :
            /\ Call(t, c) /\ alive /\ pc[t] = "user"
            /\ "threads" \in trouble \/ \A u \in Threads \ {t} : AtRest(u)
            /\ c # "Version" => h[t] = None
            /\ c = "EncOpen" => "encode" \in trouble
            /\ UNCHANGED <<trouble, proc, api_lock, shm, h, polls, hw>>
      BY <2>2 DEF DecOpen, EncOpen, GetVersionInfo, MayOpen, Alone, AtRest
    <3>2. fbs' \subseteq Slots
      BY <3>1 DEF SInv, STypeOK, shm
    <3> QED
      BY <3>1, <3>2, EnterInv DEF Calls, shm
  <2>3. CASE ~(DecClose(t) \/ SetPps(t) \/ DecOpen(t) \/ EncOpen(t) \/ GetVersionInfo(t))
    <3>1. PICK c \in {"SeqInit", "SetBufs", "Flush", "ClrDisp", "Escape", "Command", "Start", "Close"} :
            /\ Call(t, c) /\ h[t] \in inUse
            /\ \/ pc[t] = "user"
               \/ "careless" \in trouble /\ pc[t] \in {"poll", "read"} /\ c # "Close"
            /\ c = "Close" => pendingInst # h[t]
            /\ fbs' \in {fbs, fbs \cup {h[t]}}
            /\ UNCHANGED <<trouble, proc, api_lock, inUse, enc, info, pendingInst, h, polls, hw>>
      BY <1>1, <2>3 DEF Begin, DecGetInitialInfo, DecRegisterFrameBuffer, DecGiveCommand,
         DecStartOneFrame, DecBitBufferFlush, DecClrDispFlag, DecSetEscSeqInit,
         EncGetInitialInfo, EncRegisterFrameBuffer, EncGiveCommand, EncStartOneFrame, EncClose,
         decoders, shm, SInv, STypeOK
    <3>2. fbs' \subseteq Slots
      BY <3>1 DEF SInv, STypeOK
    <3> QED
      BY <3>1, <3>2, EnterInv DEF Calls
  <2> QED
    BY <2>1, <2>2, <2>3
<1>2. ASSUME NEW t \in Threads, Continue(t) PROVE SInv'
  <2>1. CASE OpenRegs(t) \/ NothingToIssue(t) \/ UpdateRegister(t) \/ DecStartFails(t)
    BY <2>1, LeaveInv DEF OpenRegs, NothingToIssue, UpdateRegister, DecStartFails
  <2>2. CASE IssueAndWait(t)
    <3>1. CommandOf[op[t]] \in Commands
      BY <2>2 DEF IssueAndWait, CommandOf, Commands
    <3> QED
      BY <2>2, <3>1, IssueInv DEF IssueAndWait
  <2>3. CASE SetParaSet(t) \/ EncCommand(t)
    BY <2>3, IssueInv DEF SetParaSet, EncCommand, Commands
  <2>4. CASE DecGetOutputInfo(t) \/ EncGetOutputInfo(t)
    BY <2>4, OutputInv DEF DecGetOutputInfo, EncGetOutputInfo
  <2> QED
    BY <1>2, <2>1, <2>2, <2>3, <2>4, LockInv, TimeoutInv, InstanceInv, BusyClearInv, SpinInv,
       StartInv, StartFailsInv, IsBusyInv, WokenInv, WaitTimeoutInv, CloseUnusedInv DEF Continue
<1>3. CASE UNCHANGED svars
  BY <1>3 DEF svars, shm, hw, SInv, STypeOK, Handles, Control, Single, Locked, Released, Owned,
     Waiting, Leftover, Attended, Inside, Framing, AtRest, Intact, Polite, Unlocks
<1> QED
  BY <1>1, <1>2, <1>3, DoneInv, IrqInv, KillInv, RespawnInv, BootInv DEF SNext

-----------------------------------------------------------------------------
\* The premises of the properties are those of the invariant.
LEMMA Premises ==
  /\ LockIntact <=> Intact
  /\ CommandsLocked <=> Polite
  /\ StartsUnlock <=> Unlocks
  /\ Without({"wedge"}) <=> "wedge" \notin trouble
  /\ Without({"timeout"}) <=> "timeout" \notin trouble
  BY DEF LockIntact, CommandsLocked, StartsUnlock, Without, Intact, Polite, Unlocks

\* For any number of threads and instances: a thread between LockVpu and UnlockVpu has
\* the lock, and nobody keeps it who is not inside a call or has a frame outstanding,
\* over frames that span two calls, abandoned decodes, lock timeouts and kills.
THEOREM LockSafe == SSpec => [](STypeOK /\ InsideHoldsLock /\ NoOrphanLock)
<1>1. SInv => STypeOK /\ InsideHoldsLock /\ NoOrphanLock
  <2> SUFFICES ASSUME SInv PROVE InsideHoldsLock /\ NoOrphanLock
    BY DEF SInv
  <2>1. InsideHoldsLock
    BY Premises DEF SInv, Locked, Inside, InsideHoldsLock
  <2>2. NoOrphanLock
    BY Premises DEF SInv, Released, Inside, NoOrphanLock, alive
  <2> QED
    BY <2>1, <2>2
<1> QED
  BY <1>1, SInitInv, SNextInv, PTL DEF SSpec

\* GetCodecInstance, FreeInstance and vpu_semaphore_open keep the instance pool: a handle
\* is a slot in use and nobody else's, and no slot is lost.
THEOREM SlotsSafe == SSpec => []SlotsOwned
<1>1. SInv => SlotsOwned
  <2> SUFFICES ASSUME SInv, alive PROVE SlotsOwned
    BY DEF SlotsOwned
  <2>1. {h[t] : t \in Threads} \ {None} \subseteq inUse
    BY DEF SInv, Handles
  <2>2. \A t, u \in Threads : t # u /\ h[t] # None => h[t] # h[u]
    BY DEF SInv, Handles
  <2>3. LockIntact /\ StartsUnlock /\ Without({"timeout"}) => 
          inUse \subseteq {h[t] : t \in Threads} \ {None}
    BY Premises, SessionConstants DEF SInv, STypeOK, Owned, alive, Slots, None
  <2> QED
    BY <2>1, <2>2, <2>3 DEF SlotsOwned
<1> QED
  BY <1>1, SInitInv, SNextInv, PTL DEF SSpec

\* The decode loop: a thread in WAIT4INT whose picture is finished has its wake-up
\* coming, and results are read only when the BIT processor is done, whatever wake-ups
\* earlier pictures left behind.
THEOREM FramesSafe == SSpec => [](OutputAfterDone /\ NoLostWakeup)
<1>1. SInv => OutputAfterDone /\ NoLostWakeup
  BY Premises DEF SInv, Waiting, OutputAfterDone, NoLostWakeup, busy
<1> QED
  BY <1>1, SInitInv, SNextInv, PTL DEF SSpec

\* BitIssueCommand never hits a BIT processor that is still busy, if callers see
\* their frames through and the processor answers.
THEOREM CommandsSafe == SSpec => NoCommandWhileBusy
<1> DEFINE Quiet == LockIntact /\ CommandsLocked /\ Without({"abandon", "careless", "wedge"})
<1>1. SInv /\ [SNext]_svars =>
        [Quiet => (cmd' # "idle" /\ cmd' # cmd => cmd = "idle")]_svars
  <2> SUFFICES ASSUME SInv, SNext, Quiet, cmd' # "idle", cmd' # cmd, cmd # "idle" PROVE FALSE
    BY DEF svars, hw
  <2>1. Intact /\ Polite /\ "wedge" \notin trouble
    BY Premises DEF Without
  <2>2. \/ proc = "boot"
        \/ \E u \in Threads : pc[u] \in {"busywait", "spin", "poll", "sleep"}
    BY <2>1 DEF SInv, Attended, Without
  <2>3. proc # "up" => \A u \in Threads : pc[u] = "user" /\ h[u] = None
    BY DEF SInv, Handles, AtRest
  <2>4. CASE VpuInit
    BY <2>2, <2>3, <2>4 DEF VpuInit
  <2>5. CASE \E t \in Threads : Begin(t) \/ Continue(t)
    <3>1. PICK t \in Threads : \/ pc[t] = "body"
                               \/ pc[t] = "user" /\ "pps" \in trouble /\ h[t] \in inUse
      <4>1. PICK t \in Threads : Begin(t) \/ Continue(t)
        BY <2>5
      <4>2. CASE Begin(t)
        <5>1. SetPps(t)
          BY <4>2 DEF Begin, DecOpen, DecGetInitialInfo, DecRegisterFrameBuffer,
             DecGiveCommand, DecStartOneFrame, DecBitBufferFlush, DecClrDispFlag, DecClose,
             DecSetEscSeqInit, GetVersionInfo, EncOpen, EncGetInitialInfo,
             EncRegisterFrameBuffer, EncGiveCommand, EncStartOneFrame, EncClose, hw
        <5> QED
          BY <5>1 DEF SetPps, decoders
      <4>3. CASE Continue(t)
        <5>1. IssueAndWait(t) \/ SetParaSet(t) \/ EncCommand(t) \/ StartPicRun(t)
          BY <4>3 DEF Continue, LockVpu, LockTimeout, GetCodecInstance, OpenRegs,
             NothingToIssue, WaitBitBusyClear, UpdateRegister, Spin, DecStartFails,
             EncStartFails, IsBusy, Wait4Int, Wait4IntTimeout, DecGetOutputInfo,
             EncGetOutputInfo, GetOutput, CloseUnused, hw
        <5> QED
          BY <5>1 DEF IssueAndWait, SetParaSet, EncCommand, StartPicRun
      <4> QED
        BY <4>1, <4>2, <4>3
    <3>2. PICK u \in Threads : pc[u] \in {"busywait", "spin", "poll", "sleep"}
      BY <2>2, <2>3, <3>1, SessionConstants DEF SInv, STypeOK, Slots, None
    <3>3. u # t
      BY <3>1, <3>2
    <3>4. CASE "threads" \notin trouble
      BY <3>1, <3>2, <3>3, <3>4, SessionConstants DEF SInv, Single, AtRest, STypeOK, Slots, None
    <3>5. CASE "threads" \in trouble
      BY <2>1, <3>1, <3>2, <3>3, <3>5
         DEF SInv, Locked, Control, Inside, Framing, Polite
    <3> QED
      BY <3>4, <3>5
  <2> QED
    BY <2>4, <2>5 DEF SNext, CommandDone, vpu_irq_handler, Kill, Respawn, NoFirmware, VpuInitDone, hw
<1> QED
  BY <1>1, SInitInv, SNextInv, PTL DEF SSpec, NoCommandWhileBusy
=============================================================================
