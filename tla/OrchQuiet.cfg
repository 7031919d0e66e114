CONSTANTS
  t1 = t1
  t2 = t2
  Thread = {t1, t2}
  Images <- SmallImages
  Addrs <- SmallAddrs
  L1Size = 3
  MaxEncodes = 3
  Concurrent = FALSE
SPECIFICATION Spec
INVARIANTS
  CacheTransparent
