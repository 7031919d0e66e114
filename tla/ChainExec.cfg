CONSTANTS
  Binaries <- DirectBinaries
  Configs <- SeparateConfigs
  retaddr = 99
  MaxDepth = 2
SPECIFICATION Spec
CHECK_DEADLOCK FALSE
INVARIANTS
  TypeOK
  HandlerAtPc
  EveryInsnAnnounced
PROPERTY
  ImplementsGuest
