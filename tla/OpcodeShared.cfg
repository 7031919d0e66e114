SPECIFICATION Spec
CONSTANTS
  Threads = {"t1", "t2"}
  Opcodes = {"add", "wide", "crc"}
  OperandIds = {"x0", "x1", "x2"}
  Undecoded = {"bad"}
  Kind <- Kinds
  Ops <- Operands
  CodeSize <- Sizes
  Hash <- Slots
  Implemented = {"stp"}
  MaxArgs = 2
  page_size = 4
  MaxCalls = 3
  MaxEngines = 2
INVARIANT SharedHandlersStay
CHECK_DEADLOCK FALSE
