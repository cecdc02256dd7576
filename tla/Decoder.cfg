CONSTANTS
  Threads = {t1, t2}
  NumInst = 2
  MaxPolls = 2
  Troubles = {{"threads", "abandon", "careless", "wedge", "timeout"},
              {"threads", "abandon", "wedge", "nomem"},
              {"threads", "encode", "abandon", "timeout"},
              {"threads", "encode", "command", "timeout"},
              {"threads", "encode", "command"},
              {"threads", "encode", "wedge", "timeout", "nomem"},
              {"encode", "abandon", "careless", "wedge", "timeout", "kill", "nomem"},
              {"encode", "command", "pps", "abandon", "careless", "kill", "nomem"},
              {"abandon", "careless", "wedge", "kill"},
              {"encode", "command", "pps", "kill"}}
SPECIFICATION FairSpec
INVARIANTS InsideHoldsLock OutputAfterDone NoOrphanLock SlotsOwned NoLostWakeup
PROPERTIES NoCommandWhileBusy CallsReturn
