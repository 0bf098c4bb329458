SPECIFICATION Spec
CONSTANTS
  Plans <- SomePlans
  Answers <- SomeAnswers
  Tool = "external"
  Prefix <- MCPrefix
  MaxClaims = 3
  MaxCited = 2
  MaxNamed = 5
  MaxRounds = 2
CHECK_DEADLOCK FALSE
INVARIANTS
  TypeOK
  RecordsOnce
  WorkCurrent
  NoDeadEnd
  CompletedGrounded
  SynthesisRefused
  MemoLinks
