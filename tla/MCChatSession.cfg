CONSTANTS
  a = a
  b = b
  NoMessage = NoMessage
  Symbols <- MCSymbols
  Chunks <- MCChunks
  MaxRuns = 3
  MaxText = 2
SPECIFICATION Spec
INVARIANTS
  OneRunAtATime
  AnswerFollowsQuestion
PROPERTIES
  BystandersUntouched
  StopWins
  FruitlessRunKeepsAnswer
  ContinueOnlyExtends
  EveryRunSettles
