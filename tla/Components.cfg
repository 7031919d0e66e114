CONSTANTS
  PartsChecked = {"registers", "server", "intrinsics", "native", "lifter", "operands", "preencoded"}
  Arch = {"ARM64", "X64"}
  Reads <- ReadFields
  Writes <- WriteFields
  ClientWrites <- ClientFields
  Values <- TwoValues
  Loads = {"main", "opcode"}
  Base = 16
  ImageBase = 0
  FileBuf = 40
  Sections <- FourSections
  MaxOps = 2
SPECIFICATION SpecAll
CHECK_DEADLOCK FALSE
INVARIANTS
  TypesOK
  ClientKnowsRegisters
  SectionsCount
  EnvironmentAsAsked
  HostConvention
  ChainContext
  InsnEffect
  HandlerRunsOpcode
  MetadataAgrees
  ShiftsAreBitwise
  RunsInsnAtPc
  DumpAgrees
PROPERTIES
  OneRegisterFile
  EntriesSetOnce
