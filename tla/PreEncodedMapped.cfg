CONSTANTS
  PartsChecked = {"preencoded"}
  Arch = {"ARM64", "X64"}
  Reads <- ReadFields
  Writes <- WriteFields
  ClientWrites <- ClientFields
  Values <- TwoValues
  Loads = {"main", "opcode"}
  Base = 16
  ImageBase = 0
  FileBuf = 40
  Sections <- FourSections
  MaxOps = 2
SPECIFICATION SpecAll
CHECK_DEADLOCK FALSE
INVARIANT MetadataMapped
