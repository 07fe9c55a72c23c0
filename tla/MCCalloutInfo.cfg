SPECIFICATION Spec

CONSTANTS
  Threads = {t1, t2, t3}
  Patterns <- SomePatterns
  NoCallout = NoCallout
  ArgumentException = ArgumentException
  MaxCalls = 2

INVARIANTS
  TypeOK
  LookupsAgree
