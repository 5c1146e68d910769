SPECIFICATION FairSessionSpec
CONSTANTS
  d1 = d1
  d2 = d2
  m1 = m1
  w1 = w1
  Threads = {m1, w1, rmmod}
  Sessions = {m1}
  Watcher <- OneWatcher
  Rmmod = rmmod
  Devices = {d1, d2}
  DeviceLists <- Pair
  SnapshotSet = {s1, s2}
  MaxLive = 1
  Bios = {b1}
  Faults = {"tracker", "area", "freeze", "cbt", "corrupt", "image", "disk"}
  Mishaps = {"event", "storage"}
  Sequential = FALSE
  HEAD = HEAD
  NULL = NULL
INVARIANTS FilesOutliveSnapshot RunningHasImages
PROPERTIES DestructorEnds
\* A session that is over does nothing more.
CHECK_DEADLOCK FALSE
