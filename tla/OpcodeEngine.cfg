SPECIFICATION FairSpec
CONSTANTS
  Threads = {"t1", "t2"}
  Opcodes = {"add", "wide", "crc", "aes", "stp", "bad", "udf", "ldp"}
  OperandIds = {"x0", "x1", "x2"}
  Undecoded = {"bad"}
  Kind <- Kinds
  Ops <- Operands
  CodeSize <- Sizes
  Hash <- Slots
  Implemented = {"stp"}
  MaxArgs = 2
  page_size = 4
  MaxCalls = 3
  MaxEngines = 2
INVARIANTS TypeOK ArgsResolve CodeIsOwn AnswerIsHonest
PROPERTY CallsReturn
CHECK_DEADLOCK FALSE
