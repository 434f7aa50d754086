\* One turn: eight worlds of a conversation, a core book and two memories; five
\* profiles and five runtimes; a call with up to four payloads in chunks of two.
CONSTANTS
  a = a
  b = b
  NoPayload = NoPayload
  NoWorld = NoWorld
  Tokens <- MCTokens
  Payloads <- MCPayloads
  MaxSent = 4
  MaxChunk = 2
  Cases <- MCCases
  Memories <- MCMemories
  RecentCount = 3
  MaxResults = 2
  None = None
  Profiles <- MCProfiles
  Setups <- MCSetups
  Models <- MCModels

SPECIFICATION TurnSpec

INVARIANTS
  CauseIsTrue
  ConsumerSeesTheStream
  SelectionFollowsRules
  QuestionComesLast
  NothingWithdrawn
  ModelFitsDestination

PROPERTIES
  TurnKeepsContract

\* A settled turn takes no further step.
CHECK_DEADLOCK FALSE
