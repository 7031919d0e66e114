CONSTANTS
  Binaries <- TableBinaries
  Configs <- InsnOnly
  retaddr = 99
  MaxDepth = 2
SPECIFICATION Spec
CHECK_DEADLOCK FALSE
INVARIANT
  HandlerAtPc
