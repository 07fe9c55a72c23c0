SPECIFICATION Spec

CONSTANTS
  MaxCharacters = 2
  Subjects <- ValidSubjects
  MaxResultsSet = {2}
  UINT16_MAX = 1
  MaxChanges = 0
  MaxFailures = 0

INVARIANTS
  OnlyMatches
