------------------------------- MODULE Memory -------------------------------
(***************************************************************************)
(* The memory of one character: MemoryBrokerImpl                           *)
(* (core/src/memory-broker.ts) on its store, and the RetrievalEventIndexer *)
(* (core/src/retrieval-indexer.ts) that follows its events into the        *)
(* full-text index of the host.  Reads are left out, they change nothing.  *)
(*                                                                         *)
(* create, update and archive load the whole state, change their copy and  *)
(* save it; only supersede is one command of the store.  Several of them   *)
(* may be in progress.  A call waits for the handlers of its event, so     *)
(* that the steps of the indexer are steps of the call.  Whatever rejects  *)
(* in a handler is recorded by the event bus and goes no further.          *)
(*                                                                         *)
(* Of an item only its content, its mutationPolicy and whether its status  *)
(* is "active" are modelled.                                               *)
(* The variables "alone" and "current" are no state of the program: the    *)
(* calls that have had no company, and whether nothing has happened since  *)
(* the index was made that excuses it from mirroring the memory.           *)
(***************************************************************************)
EXTENDS Naturals, Sequences

CONSTANTS
  Ids,          \* identifiers of memories
  Contents,
  Policies,     \* the mutation policies in use
  Callers,      \* who may have a call in progress
  AuthorityOf,  \* on whose behalf a caller calls, see Authority
  Nobody,       \* no call
  Nothing       \* no item, no document

ASSUME PoliciesAssumption == Policies \subseteq {"locked", "suggest", "auto"}

\* MemoryMutationAuthority: the user, or another actor, who is trusted or
\* not and has some capabilities.
Capabilities ==
  {"memory.create", "memory.write.suggest.apply", "memory.write.auto"}

Authority ==
  [user : BOOLEAN, trusted : BOOLEAN, capabilities : SUBSET Capabilities]

ASSUME AuthorityAssumption == AuthorityOf \in [Callers -> Authority]

Item ==
  [content : Contents, policy : Policies, active : BOOLEAN]

ASSUME NothingAssumption == Nothing \notin Item /\ Nothing \notin Contents

Items == [Ids -> Item \cup {Nothing}]

\* what a call is about to write, with the item it has made; "new" is the
\* identifier of that item when it supersedes another
Writing ==
  [op : {"create", "update", "supersede", "archive"},
   id : Ids, new : Ids, item : Item,
   state : Items,  \* the state it is going to save
   pc : {"save", "supersede"}]

\* what the handler of its event has to do, and the document it has read
Task == [kind : {"refresh", "remove"}, id : Ids]

Indexing ==
  [todo : Seq(Task), document : Contents \cup {Nothing}, pc : {"index", "upsert"}]

Call == Writing \cup Indexing

ASSUME NobodyAssumption == Nobody \notin Call

VARIABLES
  items,    \* the items in the store
  index,    \* the content the index has of every item
  calls,    \* the call every caller has in progress
  alone,    \* see above, also the next
  current

vars == <<items, index, calls, alone, current>>

TypeOK ==
  /\ items \in Items
  /\ index \in [Ids -> Contents \cup {Nothing}]
  /\ calls \in [Callers -> Call \cup {Nobody}]
  /\ alone \in SUBSET Callers
  /\ current \in BOOLEAN

NoItems == [id \in Ids |-> Nothing]

Init ==
  /\ items = NoItems
  /\ index = [id \in Ids |-> Nothing]
  /\ calls = [p \in Callers |-> Nobody]
  /\ alone = {}
  /\ current = TRUE

-----------------------------------------------------------------------------
(* Who may do what.                                                        *)

IsActive(state, id) == state[id] # Nothing /\ state[id].active

ActorAllowed(who, policy) ==
  \/ who.user
  \/ /\ who.trusted
     /\ \/ policy = "suggest" /\ "memory.write.suggest.apply" \in who.capabilities
        \/ policy = "auto" /\ "memory.write.auto" \in who.capabilities

CreationAllowed(who, policy) ==
  \/ who.user
  \/ /\ who.trusted /\ "memory.create" \in who.capabilities
     /\ policy = "auto" => "memory.write.auto" \in who.capabilities

-----------------------------------------------------------------------------
(* Calls.                                                                  *)

At(p, pc) == calls[p] # Nobody /\ calls[p].pc = pc

Busy == \E p \in Callers : calls[p] # Nobody

NewItem(content, policy) ==
  [content |-> content, policy |-> policy, active |-> TRUE]

\* A call begins with its load: what it does before changes nothing, and a
\* call that rejects then is not made.
Begin(p, call) ==
  /\ calls[p] = Nobody
  /\ calls' = [calls EXCEPT ![p] = call]
  /\ alone' = IF Busy THEN {} ELSE {p}
  /\ current' = (current /\ ~Busy)
  /\ UNCHANGED <<items, index>>

\* create, update and archive: what they will save
BeginSave(p, op, id, item) ==
  Begin(p, [op |-> op, id |-> id, new |-> id, item |-> item,
            state |-> [items EXCEPT ![id] = item], pc |-> "save"])

Create(p, id, content, policy) ==
  /\ CreationAllowed(AuthorityOf[p], policy)
  /\ items[id] = Nothing
  /\ BeginSave(p, "create", id, NewItem(content, policy))

\* does not look at the status
FaultyMayChange(p, id) ==
  items[id] # Nothing /\ ActorAllowed(AuthorityOf[p], items[id].policy)

\* asks whether the actor may make such an item, not change this one
FaultyPolicy(p, id) ==
  IsActive(items, id) /\ CreationAllowed(AuthorityOf[p], items[id].policy)

MayChange(p, id) ==
  IsActive(items, id) /\ ActorAllowed(AuthorityOf[p], items[id].policy)

Update(p, id, content, policy) ==
  /\ MayChange(p, id)
  /\ BeginSave(p, "update", id, NewItem(content, policy))

Archive(p, id) ==
  /\ MayChange(p, id)
  /\ BeginSave(p, "archive", id, [items[id] EXCEPT !.active = FALSE])

Supersede(p, id, new, content, policy) ==
  /\ MayChange(p, id)
  /\ new # id
  /\ CreationAllowed(AuthorityOf[p], policy)
  /\ Begin(p, [op |-> "supersede", id |-> id, new |-> new,
               item |-> NewItem(content, policy), state |-> NoItems,
               pc |-> "supersede"])

\* The call is over, be it that it rejects.
End(p) ==
  /\ calls' = [calls EXCEPT ![p] = Nobody]
  /\ alone' = alone \ {p}

\* forgets what is no longer active
FaultyTasks(call) == <<[kind |-> "refresh", id |-> call.new]>>

\* the handler of the call's event
Tasks(call) ==
  CASE call.op \in {"create", "update"} -> <<[kind |-> "refresh", id |-> call.id]>>
    [] call.op = "supersede" -> <<[kind |-> "remove", id |-> call.id],
                                  [kind |-> "refresh", id |-> call.new]>>
    [] call.op = "archive" -> <<[kind |-> "remove", id |-> call.id]>>

Announce(p) ==
  calls' = [calls EXCEPT ![p] =
    [todo |-> Tasks(calls[p]), document |-> Nothing, pc |-> "index"]]

\* writes the new item only
FaultySaved(call) == [NoItems EXCEPT ![call.id] = call.item]

Saved(call) == call.state

\* store.save, over whatever was saved since the load
SaveState(p) ==
  /\ At(p, "save")
  /\ items' = Saved(calls[p])
  /\ Announce(p)
  /\ UNCHANGED <<index, alone, current>>

\* trusts the broker's check
FaultyMayReplace(call) == items[call.new] = Nothing

MayReplace(call) == IsActive(items, call.id) /\ items[call.new] = Nothing

\* store.supersede, on the state as it is now
SupersedeInStore(p) ==
  LET call == calls[p]
  IN  /\ At(p, "supersede")
      /\ IF MayReplace(call)
         THEN /\ items' = [items EXCEPT ![call.id].active = FALSE,
                                        ![call.new] = call.item]
              /\ Announce(p)
              /\ UNCHANGED alone
         ELSE End(p) /\ UNCHANGED items
      /\ UNCHANGED <<index, current>>

\* The store rejects.
Fail(p) ==
  /\ At(p, "save") \/ At(p, "supersede")
  /\ End(p)
  /\ UNCHANGED <<items, index, current>>

-----------------------------------------------------------------------------
(* The indexer.                                                            *)

Task1(p) == Head(calls[p].todo)

\* indexes the item whole
Document(item) ==
  IF item # Nothing /\ item.active THEN item.content ELSE Nothing

\* refreshMemory up to its write: the item as it is now
ReadItem(p) ==
  /\ At(p, "index") /\ calls[p].todo # <<>> /\ Task1(p).kind = "refresh"
  /\ calls' = [calls EXCEPT ![p].pc = "upsert",
                            ![p].document = Document(items[Task1(p).id])]
  /\ UNCHANGED <<items, index, alone, current>>

\* upsert, or remove when there is nothing to write
WriteIndex(p) ==
  /\ \/ At(p, "upsert")
     \/ At(p, "index") /\ calls[p].todo # <<>> /\ Task1(p).kind = "remove"
  /\ index' = [index EXCEPT ![Task1(p).id] = calls[p].document]
  /\ calls' = [calls EXCEPT ![p].pc = "index", ![p].todo = Tail(@),
                            ![p].document = Nothing]
  /\ UNCHANGED <<items, alone, current>>

\* The handler rejects at a read or a write; the rest of it is left out.
HandlerFails(p) ==
  /\ At(p, "upsert") \/ At(p, "index")
  /\ calls[p].todo # <<>>
  /\ calls' = [calls EXCEPT ![p].pc = "index", ![p].todo = <<>>,
                            ![p].document = Nothing]
  /\ current' = FALSE
  /\ UNCHANGED <<items, index, alone>>

Return(p) ==
  /\ At(p, "index") /\ calls[p].todo = <<>>
  /\ End(p)
  /\ UNCHANGED <<items, index, current>>

Documents(state) == [id \in Ids |-> Document(state[id])]

\* rebuild and rebuildAll of the host, one transaction under its locks, at
\* the start of the runtime or when the user asks for it
Rebuild ==
  /\ index' = Documents(items)
  /\ current' = (current \/ ~Busy)
  /\ UNCHANGED <<items, calls, alone>>

\* The character is deleted and, being the default one, made anew: its
\* memory is still there.
CharacterDeleted ==
  /\ index' = [id \in Ids |-> Nothing]
  /\ current' = FALSE
  /\ UNCHANGED <<items, calls, alone>>

-----------------------------------------------------------------------------
Next ==
  \/ \E p \in Callers :
       \/ \E id \in Ids :
            \/ Archive(p, id)
            \/ \E content \in Contents, policy \in Policies :
                 \/ Create(p, id, content, policy)
                 \/ Update(p, id, content, policy)
                 \/ \E new \in Ids : Supersede(p, id, new, content, policy)
       \/ SaveState(p) \/ SupersedeInStore(p) \/ Fail(p)
       \/ ReadItem(p) \/ WriteIndex(p) \/ HandlerFails(p) \/ Return(p)
  \/ Rebuild \/ CharacterDeleted

Spec == Init /\ [][Next]_vars

-----------------------------------------------------------------------------
(* Properties.                                                             *)

\* The index is derived from the memory: while nothing is in progress, it
\* has exactly the active items, with their present content, unless calls
\* have overlapped, a handler has failed or the character was deleted since
\* the last rebuild.
IndexMirrorsMemory == current /\ ~Busy => index = Documents(items)

Writes(p) == At(p, "save") \/ At(p, "supersede")

\* A call that nothing overlaps changes no items but the one it is about, and
\* the one it puts in the place of that.
OthersUntouched ==
  [][\A id \in Ids :
       items'[id] # items[id] =>
         \E p \in Callers :
           Writes(p) /\ (p \notin alone \/ id \in {calls[p].id, calls[p].new})]_vars

\* "superseded memory cannot be updated", "old memory is retained",
\* "archived memory cannot be archived twice" and "locked mutation policy
\* blocks model mutation" (tests/unit/memory-broker.test.ts): an item changes
\* only while it is active, and on behalf of an actor who may change it by the
\* policy it has at that very moment, unless the call overlaps others and
\* saves a state it has loaded earlier.
PoliciesHold ==
  [][\A id \in Ids :
       items[id] # Nothing /\ items'[id] # items[id] =>
         \/ \E p \in Callers : At(p, "save") /\ p \notin alone
         \/ /\ IsActive(items, id)
            /\ \A p \in alone :
                 Writes(p) /\ calls'[p] # calls[p] =>
                   ActorAllowed(AuthorityOf[p], items[id].policy)]_vars

\* "supersede leaves one active fact version" (the same test), also when two
\* calls supersede the same item: supersede replaces an active item by one
\* that is new, both in one step, and loses no other.
SupersedesOnce ==
  [][\A p \in Callers :
       At(p, "supersede") /\ calls'[p] # calls[p] /\ items' # items =>
         LET call == calls[p] IN
           /\ IsActive(items, call.id) /\ items[call.new] = Nothing
           /\ ~IsActive(items', call.id) /\ IsActive(items', call.new)
           /\ \A id \in Ids \ {call.id, call.new} : items'[id] = items[id]]_vars
=============================================================================
