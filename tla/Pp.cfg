CONSTANTS
  Tasks = {t1, t2}
  Versions = {0, 1}
SPECIFICATION PpFair
INVARIANTS OwnFrame QuietAfterReturn CscWhole NoLostInterrupt
PROPERTIES NoReprogramming IoctlsReturn
