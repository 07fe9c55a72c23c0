SPECIFICATION SoloSpec

CONSTANTS
  t1 = t1
  p1 = p1
  p2 = p2
  d1 = d1
  NoItem = NoItem
  Threads = {t1, t2}
  Patterns = {p1, p2}
  PcreOptions = {"Utf"}
  ExtraOptions = {}
  JitOptions = {}
  Directives = {d1}
  Build <- MCBuild
  Keys <- MCKeys
  Hash <- MCHash
  Same <- Equals
  Sizes = {0, 1, 2}
  BadKeys <- MCBadKeys

INVARIANTS
  DisabledCacheIsEmpty
