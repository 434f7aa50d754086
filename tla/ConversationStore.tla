------------------------- MODULE ConversationStore -------------------------
(***************************************************************************)
(* The conversation store: the state and the commands that                 *)
(* InMemoryConversationStore (host/conversations/src/index.ts) and the     *)
(* Tauri commands of conversations.rs have in common, as functions on a    *)
(* state.  Commands of the host run one after the other, so each of them   *)
(* is one step of whoever calls it.                                        *)
(*                                                                         *)
(* A store holds the conversations of every character, the one saved last  *)
(* first, and for every character the identifier of its active one.  (The  *)
(* code keeps one list and filters it; where a conversation of another     *)
(* character stands in it makes no difference.)  Every save of the manager *)
(* carries the present time as updatedAt, so that a sequence is in the     *)
(* order of compareConversations, with one exception: the Tauri host       *)
(* stamps a conversation it creates itself "runtime-<ms>", which is        *)
(* greater than any ISO date and sorts first until the next save.  Saves   *)
(* are taken to be a millisecond apart.                                    *)
(*                                                                         *)
(* defaultConversationId derives an identifier from the character; here it *)
(* is the character itself.  Titles are left out.                          *)
(***************************************************************************)
EXTENDS Naturals, Sequences, Functions

CONSTANTS
  Characters,  \* also the identifiers of their default conversations
  Created,     \* identifiers made by the manager's idFactory
  Texts,       \* what the messages of a conversation may be
  NoText,      \* no messages
  NoId,        \* no conversation
  TauriHost    \* whether the store is the one of the Tauri host

Ids == Characters \cup Created

ASSUME IdsAssumption ==
  Characters \cap Created = {} /\ NoId \notin Ids
ASSUME TextsAssumption == NoText \in Texts
ASSUME HostAssumption == TauriHost \in BOOLEAN

Conversation == [id : Ids, messages : Texts, hostStamp : BOOLEAN]

Store ==
  [conversations : [Characters -> Seq(Conversation)],
   active : [Characters -> Ids \cup {NoId}]]

EmptyStore ==
  [conversations |-> [c \in Characters |-> <<>>],
   active |-> [c \in Characters |-> NoId]]

NewConversation(id, host) ==
  [id |-> id, messages |-> NoText, hostStamp |-> host]

-----------------------------------------------------------------------------
(* Reading.                                                                *)

Owned(s, c) == Range(s.conversations[c])

Owns(s, c, id) == \E k \in Owned(s, c) : k.id = id

\* of a conversation that the character owns
Lookup(s, c, id) == CHOOSE k \in Owned(s, c) : k.id = id

Has(s, id) == \E c \in Characters : Owns(s, c, id)

\* get, save, set_active and delete refuse an identifier that a conversation
\* of another character has.
InScope(s, c, id) == \A d \in Characters \ {c} : ~Owns(s, d, id)

\* The head of the listing in the order of compareConversations: what the
\* host has stamped comes before the rest, and what was saved last first.
FirstListed(s, c) ==
  LET list == s.conversations[c]
      stamped == {i \in DOMAIN list : list[i].hostStamp}
      ahead == IF stamped = {} THEN DOMAIN list ELSE stamped
  IN  IF list = <<>> THEN NoId
      ELSE list[CHOOSE i \in ahead : \A j \in ahead : i <= j].id

\* getActive; NoId for undefined.  Without a usable mapping the in-memory
\* store answers with the first of the list, the Tauri host with none.
GetActive(s, c) ==
  IF s.active[c] # NoId /\ Owns(s, c, s.active[c]) THEN s.active[c]
  ELSE IF TauriHost THEN NoId
  ELSE FirstListed(s, c)

-----------------------------------------------------------------------------
(* Writing.  The arguments of Save and Delete are in scope.                *)

\* keeps what it should drop
FaultyWithout(s, c, id) ==
  [s EXCEPT !.conversations[c] = SelectSeq(@, LAMBDA k : k.id = id)]

\* The filter drops one conversation at most, since no identifier is there
\* twice (StoreLoadable of Conversations).
Without(s, c, id) ==
  LET list == s.conversations[c]
      i == CHOOSE i \in DOMAIN list : list[i].id = id
  IN  IF Owns(s, c, id)
      THEN [s EXCEPT !.conversations[c] =
              SubSeq(list, 1, i - 1) \o SubSeq(list, i + 1, Len(list))]
      ELSE s

Insert(s, c, conversation) ==
  [s EXCEPT !.conversations[c] = <<conversation>> \o @]

\* activates what it saves
FaultySave(s, c, conversation) ==
  [Insert(Without(s, c, conversation.id), c, conversation)
     EXCEPT !.active[c] = conversation.id]

Save(s, c, conversation) ==
  [Insert(Without(s, c, conversation.id), c, conversation)
     EXCEPT !.active[c] = IF @ = NoId THEN conversation.id ELSE @]

SetActive(s, c, id) == [s EXCEPT !.active[c] = id]

\* leaves the mapping to the conversation that is deleted
FaultyDelete(s, c, id) == Without(s, c, id)

\* creates no replacement for the last conversation
FaultyDeleteLast(s, c, id) ==
  LET rest == Without(s, c, id)
  IN  IF Owns(s, c, id) /\ s.active[c] = id
      THEN SetActive(rest, c, FirstListed(rest, c)) ELSE rest

\* Deleting the active conversation activates the first of the others, or a
\* new default conversation when there is none.
Delete(s, c, id) ==
  LET rest == Without(s, c, id)
      next == FirstListed(rest, c)
  IN  IF ~(Owns(s, c, id) /\ s.active[c] = id) THEN rest
      ELSE IF next # NoId THEN SetActive(rest, c, next)
      ELSE SetActive(Insert(rest, c, NewConversation(c, TauriHost)), c, c)
=============================================================================
