CONSTANTS
  n1 = n1
  n2 = n2
  a1 = a1
  a2 = a2
  Native = {n1, n2}
  Main = n1
  Addrs = {a1}
  MaxTid = 4
  MaxRef = 1
  Commands = {"continue", "step", "interrupt", "breakpoint", "detach", "disconnect"}
SPECIFICATION FairSpec
CHECK_DEADLOCK FALSE
INVARIANTS
  TypeOK
  ThisThreadIsLive
  WatchedThreadHasObject
  ClientAgrees
PROPERTY WatchdogSettles
