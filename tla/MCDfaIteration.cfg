SPECIFICATION Spec

CONSTANTS
  MaxCharacters = 2
  Subjects <- ValidSubjects
  MaxResultsSet = {0, 2, 3}
  UINT16_MAX = 2
  MaxChanges = 2
  MaxFailures = 1

INVARIANTS
  TypeOK
  StartsAtCharacters
  EachStartOnce
  MatchesAreReal

PROPERTIES
  Ends
