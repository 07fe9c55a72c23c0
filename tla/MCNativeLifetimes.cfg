SPECIFICATION FairSpec

CONSTANTS
  t1 = t1
  t2 = t2
  Threads = {t1, t2}
  Regexes = {r1}
  Buffers = {b1}
  Stacks = {s1}
  MaxDepth <- MCMaxDepth
  Limits = {5}
  DefaultLimit = 9
  PatternLimit <- MCPatternLimit

INVARIANTS
  TypeOK
  NoUseAfterFree
  FreedOnce
  NothingLost
  MatchReadable
  LimitsAreHonoured

PROPERTIES
  EventuallyFreed
