CONSTANTS
  mia = mia
  other = other
  empty = empty
  hello = hello
  p1 = p1
  NoId = NoId
  Nobody = Nobody
  TauriHost = FALSE
  Characters <- MCCharacters
  Created <- MCCreated
  Texts <- MCTexts
  NoText <- empty
  Callers <- MCCallers
SPECIFICATION DesktopSpec
PROPERTY ConversationsPersist
