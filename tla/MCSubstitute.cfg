SPECIFICATION FairSpec

CONSTANTS
  QueueStart = 2
  Width = 2
  CaseSlack = 1
  PCRE2_UNSET = 1000000
  MatchAnswers = {"Pass", "Fail", "Abort", "Throw"}
  SubstAnswers = {"Pass", "Fail", "Abort", "Throw"}
  CaseLengths = {0, 1, 7}
  CaseFailures = {"null", "throw"}
  SearchErrors <- Errors
  Inputs <- AllInputs

INVARIANTS
  TypeOK
  CalloutsRunOnce
  TwoPassesAreEnough
  NoSpuriousError
  ResultAsDocumented
  HeapSafe
  WritesInBounds
  ExceptionSurfaces

PROPERTIES
  Terminates
