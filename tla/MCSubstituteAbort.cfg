SPECIFICATION Spec

CONSTANTS
  QueueStart = 2
  Width = 2
  CaseSlack = 1
  PCRE2_UNSET = 1000000
  MatchAnswers = {"Pass", "Abort"}
  SubstAnswers = {"Pass", "Abort"}
  CaseLengths = {}
  CaseFailures = {}
  SearchErrors = {}
  Inputs <- CalloutInputs

INVARIANTS
  NothingAfterAbort
