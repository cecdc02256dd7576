CONSTANTS
  Threads = {t1}
  NumInst = 2
  MaxPolls = 2
  Troubles = {{"kill"}}
SPECIFICATION SSpec
INVARIANT PendingHoldsLock
