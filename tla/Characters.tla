----------------------------- MODULE Characters -----------------------------
(***************************************************************************)
(* CharacterManager of core/src/character-manager.ts with its store and    *)
(* the subscribers of its events.  Every operation changes the characters  *)
(* in memory at once, sends all of them to the store, waits, and publishes *)
(* its events one by one.  Several operations may wait at once; a save may *)
(* fail, which rejects the operation and leaves the change in memory; and  *)
(* the program may be restarted at any time.                               *)
(*                                                                         *)
(* Names, descriptions and dates are left out.  The dates decide which of  *)
(* the enabled characters replaces a deleted one, the oldest: here it may  *)
(* be any of them.  Saves reach the store in the order they are made.      *)
(*                                                                         *)
(* The variables "heard", "failed" and "alone" are no state of the         *)
(* manager: what a subscriber knows who has listed the characters after    *)
(* initialize and follows the events since; whether the last save failed;  *)
(* and the operation that has had the manager for itself, since a moment   *)
(* when the subscriber was right.                                          *)
(***************************************************************************)
EXTENDS Naturals, Sequences

CONSTANTS
  Ids,      \* identifiers of characters
  Default,  \* DEFAULT_CHARACTER_ID
  Callers,  \* who may have an operation in progress
  Nobody,   \* no operation
  Nothing   \* no state: nothing stored, nothing loaded

ASSUME DefaultAssumption == Default \in Ids

\* CharacterStoreState, as sets of identifiers
State == [known : SUBSET Ids, enabled : SUBSET Ids, active : Ids]

ASSUME NothingAssumption == Nothing \notin State

\* validateState, and the validation of the host
Loadable(s) == s.enabled \subseteq s.known /\ s.active \in s.known

Event == [type : {"created", "updated", "deleted", "activated"}, id : Ids]

Operation == [pc : {"saving", "publishing"}, events : Seq(Event)]

ASSUME NobodyAssumption == Nobody \notin Operation

VARIABLES
  manager,  \* whether the manager is "new", "initializing" or "initialized"
  memory,   \* its characters and activeCharacterId
  stored,   \* what the store holds
  saves,    \* saves on their way to the store
  calls,    \* the operation every caller has in progress
  heard,    \* see above, also the next two
  failed,
  alone

vars == <<manager, memory, stored, saves, calls, heard, failed, alone>>

Save == [by : Callers \cup {Nobody}, state : State]

TypeOK ==
  /\ manager \in {"new", "initializing", "initialized"}
  /\ memory \in State \cup {Nothing}
  /\ manager # "new" => memory \in State
  /\ stored \in State \cup {Nothing}
  /\ saves \in Seq(Save)
  /\ calls \in [Callers -> Operation \cup {Nobody}]
  /\ heard \in [known : SUBSET Ids, active : Ids]
  /\ failed \in BOOLEAN
  /\ alone \in SUBSET Callers

Ignorance == [known |-> {}, active |-> Default]

\* The store holds what an earlier program has left, be it a file whose
\* active character is disabled.
Init ==
  /\ manager = "new"
  /\ memory = Nothing
  /\ stored \in {s \in State : Loadable(s)} \cup {Nothing}
  /\ saves = <<>>
  /\ calls = [p \in Callers |-> Nobody]
  /\ heard = Ignorance
  /\ failed = FALSE
  /\ alone = {}

-----------------------------------------------------------------------------
(* Initialization.                                                         *)

Knowledge(s) == [known |-> s.known, active |-> s.active]

\* characters.set(defaultCharacter) and its activation; a default character
\* that exists already is overwritten.
WithDefault(s) ==
  [known |-> s.known \cup {Default}, enabled |-> s.enabled \cup {Default},
   active |-> Default]

\* the state initialize makes of a stored one
Repaired(s) ==
  IF s.active \in s.enabled THEN {s}
  ELSE IF s.enabled # {} THEN {[s EXCEPT !.active = id] : id \in s.enabled}
  ELSE {WithDefault(s)}

EmptyState == [known |-> {}, enabled |-> {}, active |-> Default]

\* initialize up to its save, if it needs one.  The events it publishes
\* before and after come before anybody may list the characters.
Initialize ==
  /\ manager = "new"
  /\ \E next \in IF stored = Nothing THEN {WithDefault(EmptyState)}
                 ELSE Repaired(stored) :
       /\ memory' = next
       /\ IF next = stored
          THEN manager' = "initialized" /\ UNCHANGED saves
          ELSE /\ manager' = "initializing"
               /\ saves' = <<[by |-> Nobody, state |-> next]>>
       /\ heard' = Knowledge(next)
  /\ UNCHANGED <<stored, calls, failed, alone>>

\* Nobody else has a save on its way before the manager is initialized.
InitializeSaved ==
  /\ manager = "initializing"
  /\ manager' = "initialized"
  /\ stored' = Head(saves).state
  /\ saves' = <<>>
  /\ UNCHANGED <<memory, calls, heard, failed, alone>>

\* The runtime does not start, or the program ends; the next one has a new
\* manager.  Saves that have not reached the store are lost.
Restart ==
  /\ manager' = "new"
  /\ memory' = Nothing
  /\ saves' = <<>>
  /\ calls' = [p \in Callers |-> Nobody]
  /\ heard' = Ignorance
  /\ failed' = FALSE
  /\ alone' = {}
  /\ UNCHANGED stored

-----------------------------------------------------------------------------
(* The operations, up to their first await.                                *)

At(p, pc) == calls[p] # Nobody /\ calls[p].pc = pc

Created(id) == [type |-> "created", id |-> id]
Updated(id) == [type |-> "updated", id |-> id]
Deleted(id) == [type |-> "deleted", id |-> id]
Activated(id) == [type |-> "activated", id |-> id]

\* sends the state from before the operation
FaultyPerform(p, next, events) ==
  /\ memory' = next
  /\ saves' = Append(saves, [by |-> p, state |-> memory])
  /\ calls' = [calls EXCEPT ![p] = [pc |-> "saving", events |-> events]]
  /\ alone' = {}
  /\ UNCHANGED <<manager, stored, heard, failed>>

Perform(p, next, events) ==
  /\ memory' = next
  /\ saves' = Append(saves, [by |-> p, state |-> next])
  /\ calls' = [calls EXCEPT ![p] = [pc |-> "saving", events |-> events]]
  /\ alone' = IF heard = Knowledge(memory) /\ \A q \in Callers : calls[q] = Nobody
              THEN {p} ELSE {}
  /\ UNCHANGED <<manager, stored, heard, failed>>

MayCall(p) == manager = "initialized" /\ calls[p] = Nobody

\* The idFactory makes an identifier that is free; here it may be one that a
\* deleted character had.
CreateCharacter(p, id, on) ==
  /\ MayCall(p)
  /\ id \notin memory.known
  /\ Perform(p, [memory EXCEPT !.known = @ \cup {id},
                               !.enabled = IF on THEN @ \cup {id} ELSE @],
             <<Created(id)>>)

\* does not protect the active character
FaultyMayUpdate(id, on) == id \in memory.known

MayUpdate(id, on) == id \in memory.known /\ (id = memory.active => on)

\* also without a change: every update is saved and announced
UpdateCharacter(p, id, on) ==
  /\ MayCall(p)
  /\ MayUpdate(id, on)
  /\ Perform(p, [memory EXCEPT !.enabled = IF on THEN @ \cup {id} ELSE @ \ {id}],
             <<Updated(id)>>)

\* announces the deletion only
FaultyReplacementEvents(id, rest, next) == <<Deleted(id)>>

\* The events of a deletion that leaves "rest" and makes "next" of it.
\* Without any character left the new active one is not announced as such.
ReplacementEvents(id, rest, next) ==
  IF next = rest THEN <<Deleted(id)>>
  ELSE IF rest.known = {} THEN <<Deleted(id), Created(Default)>>
  ELSE IF rest.enabled = {}
    THEN <<Deleted(id), Created(Default), Activated(Default)>>
  ELSE <<Deleted(id), Activated(next.active)>>

\* Deleting the active character activates another one that is enabled, or
\* the default character, made anew.
DeleteCharacter(p, id) ==
  LET rest == [memory EXCEPT !.known = @ \ {id}, !.enabled = @ \ {id}]
  IN  /\ MayCall(p)
      /\ id \in memory.known
      /\ \E next \in IF id = memory.active THEN Repaired(rest) ELSE {rest} :
           Perform(p, next, ReplacementEvents(id, rest, next))

\* takes disabled characters, too
FaultyMayActivate(id) == id \in memory.known /\ id # memory.active

\* Activating the active character returns at once.
MayActivate(id) == id \in memory.enabled /\ id # memory.active

SetActiveCharacter(p, id) ==
  /\ MayCall(p)
  /\ MayActivate(id)
  /\ Perform(p, [memory EXCEPT !.active = id], <<Activated(id)>>)

-----------------------------------------------------------------------------
(* The rest of an operation.                                               *)

SaveSettles(p, ok) ==
  /\ At(p, "saving")
  /\ saves # <<>> /\ Head(saves).by = p
  /\ saves' = Tail(saves)
  /\ failed' = ~ok
  /\ IF ok
     THEN /\ stored' = Head(saves).state
          /\ calls' = [calls EXCEPT ![p].pc = "publishing"]
          /\ UNCHANGED alone
     ELSE /\ calls' = [calls EXCEPT ![p] = Nobody]
          /\ alone' = alone \ {p}
          /\ UNCHANGED stored
  /\ UNCHANGED <<manager, memory, heard>>

Hear(event) ==
  heard' =
    CASE event.type = "created" -> [heard EXCEPT !.known = @ \cup {event.id}]
      [] event.type = "updated" -> heard
      [] event.type = "deleted" -> [heard EXCEPT !.known = @ \ {event.id}]
      [] event.type = "activated" -> [heard EXCEPT !.active = event.id]

\* The subscribers of one event are done before the next is published.
Publish(p) ==
  /\ At(p, "publishing") /\ calls[p].events # <<>>
  /\ Hear(Head(calls[p].events))
  /\ calls' = [calls EXCEPT ![p].events = Tail(@)]
  /\ UNCHANGED <<manager, memory, stored, saves, failed, alone>>

Return(p) ==
  /\ At(p, "publishing") /\ calls[p].events = <<>>
  /\ calls' = [calls EXCEPT ![p] = Nobody]
  /\ alone' = alone \ {p}
  /\ UNCHANGED <<manager, memory, stored, saves, heard, failed>>

-----------------------------------------------------------------------------
Next ==
  \/ Initialize \/ InitializeSaved \/ Restart
  \/ \E p \in Callers :
       \/ \E id \in Ids, on \in BOOLEAN :
            CreateCharacter(p, id, on) \/ UpdateCharacter(p, id, on)
       \/ \E id \in Ids : DeleteCharacter(p, id) \/ SetActiveCharacter(p, id)
       \/ \E ok \in BOOLEAN : SaveSettles(p, ok)
       \/ Publish(p) \/ Return(p)

Spec == Init /\ [][Next]_vars

-----------------------------------------------------------------------------
(* Properties.                                                             *)

Sound(s) == s.enabled \subseteq s.known /\ s.active \in s.enabled

\* "Each runtime/session has exactly one active Character ... The manager
\* does not allow the active Character to become disabled"
\* (docs/characters.md): from initialize on, whatever operations overlap and
\* whichever saves fail.
ActiveIsEnabled == manager # "new" => Sound(memory)

\* What the manager has saved once, or found good, passes the validation of
\* the next start and needs no repair: initialize finds the same active
\* character again.
StoredNeedsNoRepair ==
  manager = "initialized" => stored # Nothing /\ Sound(stored)

\* When no save is on its way and the last one did not fail, the store holds
\* what the memory does, also when operations have overlapped and earlier
\* saves have failed: a later save makes up for them.
SavedWhenQuiet ==
  manager = "initialized" /\ saves = <<>> /\ ~failed => stored = memory

\* When an operation returns that has had the manager for itself,
\* subscribers know the characters and the active one.  They know it is the
\* default character, too, when the last of the others is deleted, although
\* this is not announced.
SubscribersFollow ==
  \A p \in alone :
    At(p, "publishing") /\ calls[p].events = <<>> =>
      /\ heard.known = memory.known
      /\ heard.active # memory.active =>
           memory.known = {Default} /\ heard.active \notin heard.known
=============================================================================
