SPECIFICATION Spec
CONSTANTS
  d1 = d1
  d2 = d2
  Threads = {t1, t2}
  Devices = {d1, d2}
  DeviceLists <- Pair
  SnapshotSet = {s1}
  MaxLive = 1
  Bios = {b1}
  Faults = {"tracker", "area", "freeze", "cbt", "corrupt", "image", "disk"}
  Sequential = TRUE
  HEAD = HEAD
  NULL = NULL
INVARIANTS UsedIsLive HandlersAreaLives NothingLeft FileSystemsRun
\* Nothing is called any more after the module was unloaded.
CHECK_DEADLOCK FALSE
