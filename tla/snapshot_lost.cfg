SPECIFICATION Spec
CONSTANTS
  d1 = d1
  d2 = d2
  Threads = {t1}
  Devices = {d1, d2}
  DeviceLists <- Apart
  SnapshotSet = {s1, s2}
  MaxLive = 2
  Bios = {}
  Faults = {}
  Sequential = TRUE
  HEAD = HEAD
  NULL = NULL
INVARIANTS CreatedIsListed
CHECK_DEADLOCK FALSE
