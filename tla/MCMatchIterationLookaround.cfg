SPECIFICATION FairSpec

CONSTANTS
  Length = 2
  Patterns <- LookaroundPatterns
  Starts = {0}
  Apis = {"Matches"}
  Counts <- SomeCounts
  MaxFailures = 0

PROPERTIES
  Ends
