\* Core book: two callers, two entries, one failing file operation, one crash.
\* Conversations: two identifiers, two texts, two damages, a failure and a crash.
CONSTANTS
  Callers = {c1, c2}
  None = None
  Torn = Torn
  MaxEntries = 2
  MaxFaults = 1
  MaxCrashes = 1
  main = main
  other = other
  nothing = nothing
  hello = hello
  Absent = Absent
  Conversations <- MCConversations
  Default <- main
  Texts <- MCTexts
  NoText <- nothing
  MaxHarms = 2
SPECIFICATION HostSpec
SYMMETRY Sym
INVARIANTS
  FileIsWhole
  Durable
  QuietCacheIsFile
  FileFollowsCommands
  FirstDamageKept
