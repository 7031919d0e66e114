CONSTANTS
  Word = 128
  basePointer = 64
  GUEST_SIZE = 36
  PageSize = 4
  MapSizes <- SmallSizes
  Binaries <- CompactBinaries
  Addrs <- AllAddrs
  AccessSizes <- FewLengths
SPECIFICATION Spec
INVARIANTS
  TypeOK
  NoDoubleGrant
  CommittedIsPrefix
  NoFault
  AllSectionsMapped
