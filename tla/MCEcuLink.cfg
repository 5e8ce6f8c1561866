SPECIFICATION LinkFairSpec
CONSTANTS
  MaxCalls = 5
  SendBuffer = 2
INVARIANTS
  AnswerMatchesRequest
  FlagsAgree
PROPERTIES
  CallsReturn
