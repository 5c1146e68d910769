SPECIFICATION Spec
CONSTANTS
  Creators = {c1, c2}
  Removers = {c2}
  Bios = {b1}
  TrackerSet = {f1, f2}
  MaxPlug = 1
  MaxSnaps = 2
  Faults = TRUE
  Unloader = rmmod
  NULL = NULL
SYMMETRY Symmetry
INVARIANTS RefsExact PointersLive UnloadedClean UnloadNotStuck
\* Nothing runs any more after the module was unloaded.
CHECK_DEADLOCK FALSE
