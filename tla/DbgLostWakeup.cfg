CONSTANTS
  n1 = n1
  n2 = n2
  a1 = a1
  a2 = a2
  Native = {n1}
  Main = n1
  Addrs = {a1}
  MaxTid = 3
  MaxRef = 1
  Commands = {"continue"}
SPECIFICATION Spec
CHECK_DEADLOCK FALSE
INVARIANT NoLostWakeup
