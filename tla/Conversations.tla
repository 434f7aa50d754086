--------------------------- MODULE Conversations ---------------------------
(***************************************************************************)
(* ConversationManager of core/src/conversation-manager.ts: its            *)
(* asynchronous operations on the conversation store, cut at every await   *)
(* of a store command or of the event bus.  Several calls may be in        *)
(* progress at once, and any await may reject, which ends the call.        *)
(*                                                                         *)
(* A call whose pc is "done" has resolved and its caller has not looked    *)
(* yet; what it resolves to, a conversation, is known by its identifier.   *)
(*                                                                         *)
(* The variable "before" is no state of the program: while no other call   *)
(* about its character is made, it keeps what a call found when it began,  *)
(* so that what the call promises its caller can be stated.                *)
(***************************************************************************)
EXTENDS ConversationStore

CONSTANTS
  Callers,  \* who may have a call in progress
  Nobody    \* no call, nothing kept

Operations ==
  {"create", "update", "rename", "delete", "setActive", "getActive"}

\* Where a call waits: the command it is about to make, or "announce" for
\* the ActiveConversationChanged event.
Waiting == {"get", "save", "readActive", "remove", "list", "activate",
            "getDefault", "saveDefault", "announce"}

Call ==
  [op : Operations, char : Characters, id : Ids \cup {NoId}, messages : Texts,
   pc : Waiting \cup {"done"},
   active : Ids \cup {NoId},  \* the active conversation as far as it knows
   announces : BOOLEAN,       \* publishes after setActive
   told : BOOLEAN]            \* has published that "active" is active now

ASSUME NobodyAssumption == Nobody \notin Call

VARIABLES
  store,  \* the conversation store
  calls,  \* the call every caller has in progress
  before  \* what it found, see above

vars == <<store, calls, before>>

\* the conversations of a character and the active one
Snapshot == [owned : SUBSET Conversation, active : Ids \cup {NoId}]

SnapshotOf(c) == [owned |-> Owned(store, c), active |-> store.active[c]]

TypeOK ==
  /\ store \in Store
  /\ calls \in [Callers -> Call \cup {Nobody}]
  /\ before \in [Callers -> Snapshot \cup {Nobody}]

Init ==
  /\ store = EmptyStore
  /\ calls = [p \in Callers |-> Nobody]
  /\ before = [p \in Callers |-> Nobody]

Idle(p) == calls[p] = Nobody
At(p, pc) == calls[p] # Nobody /\ calls[p].pc = pc

Goto(p, pc) == calls' = [calls EXCEPT ![p].pc = pc]

\* The promise of the call rejects.
Reject(p) ==
  /\ calls' = [calls EXCEPT ![p] = Nobody]
  /\ before' = [before EXCEPT ![p] = Nobody]

-----------------------------------------------------------------------------
(* Calls begin.  requireCharacter has passed: every character exists.      *)

Begin(p, call) ==
  LET rivals == {q \in Callers : ~Idle(q) /\ calls[q].char = call.char}
  IN  /\ Idle(p)
      /\ calls' = [calls EXCEPT ![p] = call]
      /\ before' = [q \in Callers |->
           IF q \in rivals THEN Nobody
           ELSE IF q = p /\ rivals = {} THEN SnapshotOf(call.char)
           ELSE before[q]]
      /\ UNCHANGED store

\* The identifier is given by the caller or made by the idFactory, which
\* never makes one twice; here it may be any but the default identifier of
\* another character, which no caller gives.
Create(p, c, id) ==
  Begin(p, [op |-> "create", char |-> c, id |-> id, messages |-> NoText,
            pc |-> "get", active |-> NoId, announces |-> TRUE, told |-> FALSE])

\* updateConversation with other messages; clearConversation with none
Update(p, c, id, messages) ==
  Begin(p, [op |-> "update", char |-> c, id |-> id, messages |-> messages,
            pc |-> "get", active |-> NoId, announces |-> FALSE, told |-> FALSE])

\* updateConversation with another title, which keeps the messages it reads
Rename(p, c, id) ==
  Begin(p, [op |-> "rename", char |-> c, id |-> id, messages |-> NoText,
            pc |-> "get", active |-> NoId, announces |-> FALSE, told |-> FALSE])

DeleteConversation(p, c, id) ==
  Begin(p, [op |-> "delete", char |-> c, id |-> id, messages |-> NoText,
            pc |-> "get", active |-> NoId, announces |-> TRUE, told |-> FALSE])

SetActiveConversation(p, c, id) ==
  Begin(p, [op |-> "setActive", char |-> c, id |-> id, messages |-> NoText,
            pc |-> "get", active |-> NoId, announces |-> TRUE, told |-> FALSE])

GetActiveConversation(p, c) ==
  Begin(p, [op |-> "getActive", char |-> c, id |-> NoId, messages |-> NoText,
            pc |-> "readActive", active |-> NoId, announces |-> FALSE, told |-> FALSE])

-----------------------------------------------------------------------------
(* The commands.                                                           *)

AfterGet(op) ==
  CASE op \in {"create", "update", "rename"} -> "save"
    [] op \in {"delete", "setActive"} -> "readActive"

\* store.get: create wants the identifier to be free, the others taken.
Get(p) ==
  LET call == calls[p]
      free == ~Has(store, call.id)
  IN  /\ At(p, "get")
      /\ IF InScope(store, call.char, call.id) /\ (free <=> call.op = "create")
         THEN /\ calls' = [calls EXCEPT
                   ![p].pc = AfterGet(call.op),
                   ![p].messages = IF call.op = "rename"
                                   THEN Lookup(store, call.char, call.id).messages
                                   ELSE @]
              /\ UNCHANGED before
         ELSE Reject(p)
      /\ UNCHANGED store

\* without a timestamp
SavedConversation(call) ==
  [NewConversation(call.id, FALSE) EXCEPT !.messages = call.messages]

\* store.save of create, update and rename.  Nothing stops a conversation
\* that was deleted since "get" from coming back, nor a rename from undoing
\* an update.
SaveStep(p) ==
  LET call == calls[p]
  IN  /\ At(p, "save")
      /\ IF InScope(store, call.char, call.id)
         THEN /\ store' = Save(store, call.char, SavedConversation(call))
              /\ calls' = [calls EXCEPT
                   ![p].pc = IF call.op = "create" THEN "activate" ELSE "done",
                   ![p].active = call.id]
              /\ UNCHANGED before
         ELSE Reject(p) /\ UNCHANGED store

\* store.getActive of delete, setActive and getActive.
ReadActive(p) ==
  LET call == calls[p]
      active == GetActive(store, call.char)
      next == CASE call.op = "delete" -> "remove"
                [] call.op = "setActive" ->
                     IF active = call.id THEN "done" ELSE "activate"
                [] call.op = "getActive" ->
                     IF active = NoId THEN "list" ELSE "done"
  IN  /\ At(p, "readActive")
      /\ calls' = [calls EXCEPT
           ![p].pc = next,
           ![p].active = IF call.op = "setActive" THEN call.id ELSE active]
      /\ UNCHANGED <<store, before>>

\* store.delete.  The ConversationDeleted event changes nothing here.
Remove(p) ==
  LET call == calls[p]
  IN  /\ At(p, "remove")
      /\ IF InScope(store, call.char, call.id)
         THEN /\ store' = Delete(store, call.char, call.id)
              /\ Goto(p, "list") /\ UNCHANGED before
         ELSE Reject(p) /\ UNCHANGED store

\* what delete takes for active after it has removed its conversation
Survivor(call) == IF call.active = call.id THEN NoId ELSE call.active

\* store.list of delete and of getActive.
ListStep(p) ==
  LET call == calls[p]
      kept == IF call.op = "delete" THEN Survivor(call) ELSE NoId
      known == kept # NoId /\ Owns(store, call.char, kept)
      first == FirstListed(store, call.char)
  IN  /\ At(p, "list")
      /\ calls' = [calls EXCEPT
           ![p].pc = IF known THEN "done"
                     ELSE IF first # NoId THEN "activate" ELSE "getDefault",
           ![p].active = IF known THEN kept ELSE first]
      /\ UNCHANGED <<store, before>>

\* ensureDefaultConversation: take the default conversation if it is there.
GetDefault(p) ==
  LET c == calls[p].char
  IN  /\ At(p, "getDefault")
      /\ IF InScope(store, c, c)
         THEN /\ calls' = [calls EXCEPT
                   ![p].pc = IF Has(store, c) THEN "activate" ELSE "saveDefault",
                   ![p].active = c,
                   ![p].announces = ~Has(store, c)]
              /\ UNCHANGED before
         ELSE Reject(p)
      /\ UNCHANGED store

\* ... or save an empty one, over whatever was saved since.
SaveDefault(p) ==
  LET c == calls[p].char
  IN  /\ At(p, "saveDefault")
      /\ IF InScope(store, c, c)
         THEN /\ store' = Save(store, c, NewConversation(c, FALSE))
              /\ Goto(p, "activate") /\ UNCHANGED before
         ELSE Reject(p) /\ UNCHANGED store

\* forgets the event
FaultyActivate(p) ==
  LET call == calls[p]
  IN  /\ At(p, "activate")
      /\ IF Owns(store, call.char, call.active)
         THEN /\ store' = SetActive(store, call.char, call.active)
              /\ Goto(p, "done") /\ UNCHANGED before
         ELSE Reject(p) /\ UNCHANGED store

\* store.setActive.
Activate(p) ==
  LET call == calls[p]
  IN  /\ At(p, "activate")
      /\ IF Owns(store, call.char, call.active)
         THEN /\ store' = SetActive(store, call.char, call.active)
              /\ Goto(p, IF call.announces THEN "announce" ELSE "done")
              /\ UNCHANGED before
         ELSE Reject(p) /\ UNCHANGED store

\* events.publish
Announce(p) ==
  /\ At(p, "announce")
  /\ calls' = [calls EXCEPT ![p].pc = "done", ![p].told = TRUE]
  /\ UNCHANGED <<store, before>>

\* The host or a subscriber fails before the awaited step has an effect.
Fail(p) ==
  /\ \E pc \in Waiting : At(p, pc)
  /\ Reject(p)
  /\ UNCHANGED store

\* The caller has its answer.
Return(p) ==
  /\ At(p, "done")
  /\ Reject(p)
  /\ UNCHANGED store

-----------------------------------------------------------------------------
Command(p) ==
  \/ Get(p) \/ SaveStep(p) \/ ReadActive(p) \/ Remove(p) \/ ListStep(p)
  \/ GetDefault(p) \/ SaveDefault(p) \/ Activate(p) \/ Announce(p)
  \/ Fail(p) \/ Return(p)

Next ==
  \E p \in Callers :
    \/ \E c \in Characters :
         \/ GetActiveConversation(p, c)
         \/ \E id \in Ids :
              \/ id \in Created \cup {c} /\ Create(p, c, id)
              \/ \E messages \in Texts : Update(p, c, id, messages)
              \/ Rename(p, c, id)
              \/ DeleteConversation(p, c, id)
              \/ SetActiveConversation(p, c, id)
    \/ Command(p)

Spec == Init /\ [][Next]_vars

-----------------------------------------------------------------------------
(* Properties.                                                             *)

\* Whatever calls overlap and whichever of them fail half way, the store
\* passes the check of validate_state that the host makes on every load and
\* every save, and which quarantines the file when it fails: no identifier
\* twice, and every active mapping names a conversation of that character.
\* Moreover a character with conversations always has an active one.
StoreLoadable ==
  \A c \in Characters :
    LET conversations == store.conversations[c] IN
      /\ \A i, j \in DOMAIN conversations :
           conversations[i].id = conversations[j].id => i = j
      /\ \A d \in Characters \ {c} :
           \A k \in Owned(store, c) : ~Owns(store, d, k.id)
      /\ IF conversations = <<>> THEN store.active[c] = NoId
         ELSE Owns(store, c, store.active[c])

\* A conversation that has been saved is there until a deletion of that very
\* conversation: neither another call nor a failed one loses it.
KeptUntilDeleted ==
  [][\A id \in Ids :
       Has(store, id) /\ ~Has(store', id) =>
         \E p \in Callers : At(p, "remove") /\ calls[p].id = id]_vars

\* Deleting never leaves a character without a conversation, not even for
\* the time between two commands or when the deletion fails half way.
NeverLeftEmpty ==
  [][\A c \in Characters :
       Owned(store, c) # {} => Owned(store', c) # {}]_vars

-----------------------------------------------------------------------------
(* What a call has achieved when it resolves and no other call about the   *)
(* same character was in progress; calls about other characters may have   *)
(* been, and may have failed.                                              *)

Undisturbed(p) == At(p, "done") /\ before[p] # Nobody

Others(conversations, id) == {k \in conversations : k.id # id}

Delivers(call, was) ==
  LET c == call.char
      now == Owned(store, c)
      active == store.active[c]
      rest == Others(was.owned, call.id)
      fresh == NewConversation(c, FALSE)
  IN CASE call.op = "create" ->
            now = was.owned \cup {SavedConversation(call)} /\ active = call.id
       [] call.op \in {"update", "rename"} ->
            /\ now = rest \cup {SavedConversation(call)}
            /\ active = was.active
            /\ call.op = "rename" =>
                 \E k \in was.owned : k.id = call.id /\ k.messages = call.messages
       [] call.op = "setActive" -> now = was.owned /\ active = call.id
       [] call.op = "getActive" ->
            /\ now = IF was.owned = {} THEN {fresh} ELSE was.owned
            /\ was.owned # {} => active = was.active
       [] call.op = "delete" ->
            /\ IF rest # {} THEN now = rest
               ELSE \E k \in now : /\ now = {k} /\ k.id = c
                                   /\ k.messages = NoText
            /\ was.active # call.id => active = was.active

\* A call that was alone with its character delivers what it promises (a
\* rename the same messages), and resolves to the conversation it should: to
\* the one that is now active, and an update to the one it saved.  When
\* another conversation is active than before, subscribers of
\* ActiveConversationChanged have heard of it, also when the host has chosen
\* the new active one by itself.
AloneCallsDeliver ==
  \A p \in Callers :
    Undisturbed(p) =>
      LET active == store.active[calls[p].char] IN
        /\ Delivers(calls[p], before[p])
        /\ calls[p].active = IF calls[p].op \in {"update", "rename"}
                             THEN calls[p].id ELSE active
        /\ active # before[p].active =>
             calls[p].told /\ calls[p].active = active
=============================================================================
