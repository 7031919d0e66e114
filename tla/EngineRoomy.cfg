CONSTANTS
  t1 = t1
  Word = 128
  basePointer = 64
  GUEST_SIZE = 44
  PageSize = 4
  L1Size = 4
  MapSizes <- SomeSizes
  RawSnippets <- TwoSnippets
  MainBinary <- Main
  Targets <- StaticAddrs
  EventCfg <- NoEvents
  Thread = {t1}
  MaxEncodes = 3
  MaxMaps = 2
SPECIFICATION Spec
CHECK_DEADLOCK FALSE
INVARIANTS
  ImagesApart
  ImagesAreBacked
  RunsItsOwnCode
  TargetRunsMain
