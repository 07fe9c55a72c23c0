SPECIFICATION Spec

CONSTANTS
  CaptureCount = 2
  MaxInt = 12
  CaptureNames <- MCNames
  Chars <- MCChars
  Patterns <- MCPatterns
  Subject <- MCSubject
  AllCaptures <- MCCaptures

INVARIANTS
  TypeOK
  PartsCoverPattern
  AgreesWithGrammar
  GroupsAsCaptured
