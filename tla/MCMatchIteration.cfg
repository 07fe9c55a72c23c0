SPECIFICATION FairSpec

CONSTANTS
  Length = 2
  Patterns <- OrdinaryPatterns
  Starts <- AnyStart
  Apis <- AllApis
  Counts <- SomeCounts
  MaxFailures = 2

INVARIANTS
  TypeOK
  Sorted
  FewMatches
  NothingMissed
  SubjectAccountedFor

PROPERTIES
  Ends
  ImplementsLoop
