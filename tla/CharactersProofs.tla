-------------------------- MODULE CharactersProofs --------------------------
(***************************************************************************)
(* Proofs about Characters for any set of identifiers and of callers.  The *)
(* invariant adds to the properties what is on its way to the store: every *)
(* such state is sound, the last of them is the one in memory, and nobody  *)
(* but initialize sends one before the manager is initialized.  That of    *)
(* SubscribersFollow, FollowInv, says what a subscriber will know after    *)
(* the events that an operation has still to publish.                      *)
(***************************************************************************)
EXTENDS Characters, SequenceTheorems, TLAPS

SavesSound == \A i \in 1 .. Len(saves) : Sound(saves[i].state)

\* What initialize finds has been left by an earlier program, or saved here.
StoredLoadable == stored # Nothing => Loadable(stored)

LastSaveIsMemory == saves # <<>> => saves[Len(saves)].state = memory

QuietBefore ==
  /\ manager = "initializing" => Len(saves) = 1
  /\ manager = "new" => saves = <<>>
  /\ manager # "initialized" => \A p \in Callers : calls[p] = Nobody

Inv ==
  /\ TypeOK
  /\ ActiveIsEnabled
  /\ StoredNeedsNoRepair
  /\ SavedWhenQuiet
  /\ StoredLoadable
  /\ SavesSound
  /\ LastSaveIsMemory
  /\ QuietBefore

-----------------------------------------------------------------------------
(* States.                                                                 *)

\* A default character makes any state sound.
LEMMA DefaultIsSound ==
  ASSUME NEW s, s.known \in SUBSET Ids, s.enabled \in SUBSET Ids,
         s.enabled \subseteq s.known
  PROVE  WithDefault(s) \in State /\ Sound(WithDefault(s))
  BY DefaultAssumption DEF WithDefault, State, Sound

\* Repair makes a state sound in which the enabled characters are known.
LEMMA RepairedIsSound ==
  ASSUME NEW s \in State, s.enabled \subseteq s.known, NEW next \in Repaired(s)
  PROVE  next \in State /\ Sound(next)
  <1>1. CASE s.active \in s.enabled
    BY <1>1 DEF Repaired, State, Sound
  <1>2. CASE s.active \notin s.enabled /\ s.enabled # {}
    <2>1. PICK id \in s.enabled : next = [s EXCEPT !.active = id]
      BY <1>2 DEF Repaired
    <2> QED BY <2>1 DEF State, Sound
  <1>3. CASE s.active \notin s.enabled /\ s.enabled = {}
    BY <1>3, DefaultIsSound DEF Repaired, State
  <1> QED BY <1>1, <1>2, <1>3

-----------------------------------------------------------------------------
(* The parts of an operation.                                              *)

\* An operation that leaves a sound state keeps the invariant.
LEMMA PerformStep ==
  ASSUME Inv, NEW p \in Callers, MayCall(p), NEW next \in State, Sound(next),
         NEW events \in Seq(Event), Perform(p, next, events)
  PROVE  Inv'
  <1> USE DEF Inv
  <1>1. Len(saves) \in Nat /\ saves \in Seq(Save)
    BY DEF TypeOK
  <1> DEFINE save == [by |-> p, state |-> next]
             call == [pc |-> "saving", events |-> events]
  <1>2. save \in Save /\ call \in Operation
    BY DEF Save, Operation
  <1>3. saves' = Append(saves, save) /\ calls' = [calls EXCEPT ![p] = call]
        /\ memory' = next /\ manager' = manager /\ stored' = stored
        /\ failed' = failed /\ heard' = heard /\ alone' \in SUBSET Callers
    BY DEF Perform
  <1> HIDE DEF save, call
  <1>4. /\ saves' \in Seq(Save) /\ Len(saves') = Len(saves) + 1
        /\ saves' # <<>>
        /\ \A i \in 1 .. Len(saves) : saves'[i] = saves[i]
        /\ saves'[Len(saves) + 1] = save
    BY <1>1, <1>2, <1>3
  <1>5. manager = "initialized" /\ save.state = next
    BY DEF MayCall, save
  <1>6. TypeOK'
    <2>1. calls' \in [Callers -> Operation \cup {Nobody}]
      BY <1>2, <1>3 DEF TypeOK
    <2> QED BY <2>1, <1>3, <1>4 DEF TypeOK
  <1>7. ActiveIsEnabled' /\ StoredNeedsNoRepair' /\ QuietBefore' /\ StoredLoadable'
    BY <1>3, <1>5 DEF StoredLoadable, Loadable, ActiveIsEnabled, StoredNeedsNoRepair, QuietBefore, Sound
  <1>8. SavedWhenQuiet' /\ LastSaveIsMemory'
    BY <1>1, <1>3, <1>4, <1>5 DEF SavedWhenQuiet, LastSaveIsMemory
  <1>9. SavesSound'
    <2> SUFFICES ASSUME NEW i \in 1 .. Len(saves')
                 PROVE  Sound(saves'[i].state)
      BY DEF SavesSound, Sound
    <2>1. CASE i = Len(saves) + 1
      BY <2>1, <1>4, <1>5
    <2>2. CASE i \in 1 .. Len(saves)
      BY <2>2, <1>4 DEF SavesSound
    <2> QED BY <2>1, <2>2, <1>1, <1>4
  <1> QED BY <1>6, <1>7, <1>8, <1>9

\* The values a new manager starts with have their types.
LEMMA StartValues ==
  /\ <<>> \in Seq(Save)
  /\ [p \in Callers |-> Nobody] \in [Callers -> Operation \cup {Nobody}]
  /\ Ignorance \in [known : SUBSET Ids, active : Ids]
  <1>1. <<>> \in Seq(Save)
    OBVIOUS
  <1>2. [p \in Callers |-> Nobody] \in [Callers -> Operation \cup {Nobody}]
    OBVIOUS
  <1>3. Ignorance \in [known : SUBSET Ids, active : Ids]
    BY DefaultAssumption DEF Ignorance
  <1> QED BY <1>1, <1>2, <1>3

\* The events of an operation are events.
LEMMA EventFacts ==
  ASSUME NEW id \in Ids
  PROVE  /\ Created(id) \in Event /\ Updated(id) \in Event
         /\ Deleted(id) \in Event /\ Activated(id) \in Event
  BY DEF Created, Updated, Deleted, Activated, Event

-----------------------------------------------------------------------------
(* The actions, one lemma each.                                            *)

\* createCharacter keeps the invariant.
LEMMA CreateStep ==
  ASSUME Inv, NEW p \in Callers, NEW id \in Ids, NEW on \in BOOLEAN,
         CreateCharacter(p, id, on)
  PROVE  Inv'
  <1> DEFINE next == [memory EXCEPT !.known = @ \cup {id},
                                    !.enabled = IF on THEN @ \cup {id} ELSE @]
  <1>1. MayCall(p) /\ Perform(p, next, <<Created(id)>>)
    BY DEF CreateCharacter
  <1>2. memory \in State /\ Sound(memory)
    BY <1>1 DEF Inv, TypeOK, ActiveIsEnabled, MayCall
  <1>3. next \in State /\ Sound(next)
    BY <1>2 DEF State, Sound
  <1>4. <<Created(id)>> \in Seq(Event)
    BY EventFacts
  <1> HIDE DEF next
  <1> QED BY <1>1, <1>3, <1>4, PerformStep

\* updateCharacter keeps it: the active character stays enabled.
LEMMA UpdateStep ==
  ASSUME Inv, NEW p \in Callers, NEW id \in Ids, NEW on \in BOOLEAN,
         UpdateCharacter(p, id, on)
  PROVE  Inv'
  <1> DEFINE next == [memory EXCEPT !.enabled =
                        IF on THEN @ \cup {id} ELSE @ \ {id}]
  <1>1. MayCall(p) /\ MayUpdate(id, on) /\ Perform(p, next, <<Updated(id)>>)
    BY DEF UpdateCharacter
  <1>2. memory \in State /\ Sound(memory)
    BY <1>1 DEF Inv, TypeOK, ActiveIsEnabled, MayCall
  <1>3. next \in State /\ Sound(next)
    BY <1>1, <1>2 DEF State, Sound, MayUpdate
  <1>4. <<Updated(id)>> \in Seq(Event)
    BY EventFacts
  <1> HIDE DEF next
  <1> QED BY <1>1, <1>3, <1>4, PerformStep

\* deleteCharacter keeps it: what remains is repaired.
LEMMA DeleteStep ==
  ASSUME Inv, NEW p \in Callers, NEW id \in Ids, DeleteCharacter(p, id)
  PROVE  Inv'
  <1> DEFINE rest == [memory EXCEPT !.known = @ \ {id}, !.enabled = @ \ {id}]
  <1>1. PICK next \in IF id = memory.active THEN Repaired(rest) ELSE {rest} :
          Perform(p, next, ReplacementEvents(id, rest, next))
    BY DEF DeleteCharacter
  <1>2. MayCall(p)
    BY DEF DeleteCharacter
  <1>3. memory \in State /\ Sound(memory)
    BY <1>2 DEF Inv, TypeOK, ActiveIsEnabled, MayCall
  <1>4. rest \in State /\ rest.enabled \subseteq rest.known
        /\ (id # memory.active => Sound(rest))
    BY <1>3 DEF State, Sound
  <1> HIDE DEF rest
  <1>5. next \in State /\ Sound(next)
    BY <1>1, <1>4, RepairedIsSound
  <1>6. ReplacementEvents(id, rest, next) \in Seq(Event)
    <2>1. next.active \in Ids
      BY <1>5 DEF State
    <2>2. /\ Deleted(id) \in Event /\ Created(Default) \in Event
          /\ Activated(Default) \in Event /\ Activated(next.active) \in Event
      BY <2>1, EventFacts, DefaultAssumption
    <2> QED BY <2>2 DEF ReplacementEvents
  <1> QED BY <1>1, <1>2, <1>5, <1>6, PerformStep

\* setActiveCharacter keeps it: only enabled characters become active.
LEMMA SetActiveStep ==
  ASSUME Inv, NEW p \in Callers, NEW id \in Ids, SetActiveCharacter(p, id)
  PROVE  Inv'
  <1> DEFINE next == [memory EXCEPT !.active = id]
  <1>1. MayCall(p) /\ MayActivate(id) /\ Perform(p, next, <<Activated(id)>>)
    BY DEF SetActiveCharacter
  <1>2. memory \in State /\ Sound(memory)
    BY <1>1 DEF Inv, TypeOK, ActiveIsEnabled, MayCall
  <1>3. next \in State /\ Sound(next)
    BY <1>1, <1>2 DEF State, Sound, MayActivate
  <1>4. <<Activated(id)>> \in Seq(Event)
    BY EventFacts
  <1> HIDE DEF next
  <1> QED BY <1>1, <1>3, <1>4, PerformStep

\* initialize keeps it, whatever an earlier program has left.
LEMMA InitializeStep ==
  ASSUME Inv, Initialize
  PROVE  Inv'
  <1> USE DEF Inv
  <1>1. PICK next \in IF stored = Nothing THEN {WithDefault(EmptyState)}
                      ELSE Repaired(stored) :
          /\ memory' = next
          /\ IF next = stored
             THEN manager' = "initialized" /\ UNCHANGED saves
             ELSE /\ manager' = "initializing"
                  /\ saves' = <<[by |-> Nobody, state |-> next]>>
          /\ heard' = Knowledge(next)
    BY DEF Initialize
  <1>2. next \in State /\ Sound(next)
    <2>1. CASE stored = Nothing
      BY <2>1, <1>1, DefaultIsSound DEF EmptyState
    <2>2. CASE stored # Nothing
      <3>1. stored \in State /\ stored.enabled \subseteq stored.known
        BY <2>2 DEF TypeOK, StoredLoadable, Loadable
      <3> QED BY <2>2, <3>1, <1>1, RepairedIsSound
    <2> QED BY <2>1, <2>2
  <1>3. manager = "new" /\ saves = <<>> /\ \A p \in Callers : calls[p] = Nobody
    BY DEF Initialize, QuietBefore
  <1>4. UNCHANGED <<stored, calls, failed, alone>>
    BY DEF Initialize
  <1>5. Knowledge(next) \in [known : SUBSET Ids, active : Ids]
    BY <1>2 DEF Knowledge, State
  <1>6. CASE next = stored
    <2>1. manager' = "initialized" /\ saves' = <<>> /\ memory' = next
          /\ stored' = next /\ stored # Nothing
      BY <1>1, <1>2, <1>3, <1>4, <1>6, NothingAssumption
    <2>2. TypeOK'
      BY <2>1, <1>1, <1>2, <1>4, <1>5 DEF TypeOK
    <2>3. /\ ActiveIsEnabled' /\ StoredNeedsNoRepair' /\ SavedWhenQuiet'
          /\ StoredLoadable' /\ LastSaveIsMemory' /\ QuietBefore'
      BY <2>1, <1>2, <1>4, NothingAssumption
         DEF ActiveIsEnabled, StoredNeedsNoRepair, SavedWhenQuiet,
             StoredLoadable, LastSaveIsMemory, QuietBefore, Sound, Loadable
    <2>4. SavesSound'
      BY <2>1 DEF SavesSound
    <2> QED BY <2>2, <2>3, <2>4
  <1>7. CASE next # stored
    <2> DEFINE save == [by |-> Nobody, state |-> next]
    <2>1. save \in Save /\ save.state = next
      BY <1>2 DEF Save
    <2>2. manager' = "initializing" /\ saves' = <<save>> /\ memory' = next
      BY <1>1, <1>7
    <2> HIDE DEF save
    <2>3. saves' \in Seq(Save) /\ Len(saves') = 1 /\ saves'[1] = save
          /\ saves' # <<>>
      BY <2>1, <2>2
    <2>4. TypeOK'
      BY <2>2, <2>3, <1>1, <1>2, <1>4, <1>5 DEF TypeOK
    <2>5. /\ ActiveIsEnabled' /\ StoredNeedsNoRepair' /\ SavedWhenQuiet'
          /\ StoredLoadable' /\ LastSaveIsMemory' /\ QuietBefore'
      BY <2>1, <2>2, <2>3, <1>2, <1>3, <1>4
         DEF ActiveIsEnabled, StoredNeedsNoRepair, SavedWhenQuiet,
             StoredLoadable, LastSaveIsMemory, QuietBefore, Sound, Loadable
    <2>6. SavesSound'
      BY <2>1, <2>3, <1>2 DEF SavesSound, Sound
    <2> QED BY <2>4, <2>5, <2>6
  <1> QED BY <1>6, <1>7

\* The save of initialize keeps it.
LEMMA InitializeSavedStep ==
  ASSUME Inv, InitializeSaved
  PROVE  Inv'
  <1> USE DEF Inv
  <1>1. Len(saves) = 1 /\ saves \in Seq(Save) /\ Head(saves) = saves[1]
        /\ saves # <<>>
    BY DEF InitializeSaved, QuietBefore, TypeOK
  <1>2. saves[1].state = memory /\ Sound(saves[1].state) /\ memory \in State
    BY <1>1 DEF LastSaveIsMemory, SavesSound, InitializeSaved, TypeOK
  <1>3. manager' = "initialized" /\ stored' = memory /\ saves' = <<>>
        /\ memory' = memory /\ calls' = calls /\ heard' = heard
        /\ failed' = failed /\ alone' = alone
    BY <1>1, <1>2 DEF InitializeSaved
  <1>4. TypeOK'
    BY <1>2, <1>3 DEF TypeOK
  <1>5. /\ ActiveIsEnabled' /\ StoredNeedsNoRepair' /\ SavedWhenQuiet'
        /\ StoredLoadable' /\ LastSaveIsMemory' /\ QuietBefore' /\ SavesSound'
    BY <1>2, <1>3, NothingAssumption
       DEF ActiveIsEnabled, StoredNeedsNoRepair, SavedWhenQuiet, SavesSound,
           StoredLoadable, LastSaveIsMemory, QuietBefore, Sound, Loadable
  <1> QED BY <1>4, <1>5

\* A restart keeps it.
LEMMA RestartStep ==
  ASSUME Inv, Restart
  PROVE  Inv'
  <1> USE DEF Inv
  <1>1. TypeOK'
    BY StartValues DEF Restart, TypeOK
  <1>2. /\ ActiveIsEnabled' /\ StoredNeedsNoRepair' /\ SavedWhenQuiet'
        /\ StoredLoadable' /\ LastSaveIsMemory' /\ QuietBefore' /\ SavesSound'
    BY DEF Restart, ActiveIsEnabled, StoredNeedsNoRepair, SavedWhenQuiet,
           SavesSound, StoredLoadable, LastSaveIsMemory, QuietBefore, Loadable
  <1> QED BY <1>1, <1>2

\* A save that ends, well or not, keeps it.
LEMMA SaveSettlesStep ==
  ASSUME Inv, NEW p \in Callers, NEW ok \in BOOLEAN, SaveSettles(p, ok)
  PROVE  Inv'
  <1> USE DEF Inv
  <1>1. manager = "initialized" /\ calls[p] \in Operation
    BY DEF SaveSettles, At, QuietBefore, TypeOK
  <1>2. saves \in Seq(Save) /\ saves # <<>> /\ Len(saves) \in Nat
        /\ Len(saves) >= 1 /\ Head(saves) = saves[1]
    BY DEF SaveSettles, TypeOK
  <1>3. saves[1] \in Save /\ saves[1].state \in State /\ Sound(saves[1].state)
    <2>1. saves[1] \in Save
      BY <1>2
    <2>2. Sound(saves[1].state)
      BY <1>2 DEF SavesSound
    <2> QED BY <2>1, <2>2 DEF Save
  <1>4. /\ saves' = Tail(saves) /\ saves' \in Seq(Save)
        /\ Len(saves') = Len(saves) - 1
        /\ \A i \in 1 .. Len(saves') : saves'[i] = saves[i + 1]
    BY <1>2 DEF SaveSettles
  <1>5. manager' = manager /\ memory' = memory /\ heard' = heard
        /\ failed' = ~ok
    BY DEF SaveSettles
  <1>6. SavesSound'
    <2> SUFFICES ASSUME NEW i \in 1 .. Len(saves')
                 PROVE  Sound(saves'[i].state)
      BY DEF SavesSound, Sound
    <2>1. i + 1 \in 1 .. Len(saves) /\ saves'[i] = saves[i + 1]
      BY <1>2, <1>4
    <2> QED BY <2>1 DEF SavesSound
  <1>7. LastSaveIsMemory'
    <2> SUFFICES ASSUME saves' # <<>>
                 PROVE  saves'[Len(saves')].state = memory
      BY <1>5 DEF LastSaveIsMemory
    <2>1. Len(saves') >= 1 /\ saves'[Len(saves')] = saves[Len(saves)]
      BY <1>2, <1>4
    <2> QED BY <2>1, <1>2 DEF LastSaveIsMemory
  <1>8. CASE ok
    <2>1. stored' = saves[1].state /\ alone' = alone
          /\ calls' = [calls EXCEPT ![p].pc = "publishing"]
      BY <1>2, <1>8 DEF SaveSettles
    <2>2. TypeOK'
      <3>1. [calls[p] EXCEPT !.pc = "publishing"] \in Operation
        BY <1>1 DEF Operation
      <3>2. calls' \in [Callers -> Operation \cup {Nobody}]
        BY <2>1, <3>1 DEF TypeOK
      <3> QED BY <3>2, <2>1, <1>3, <1>4, <1>5 DEF TypeOK
    <2>3. ActiveIsEnabled' /\ StoredNeedsNoRepair' /\ StoredLoadable' /\ QuietBefore'
      BY <2>1, <1>1, <1>3, <1>5, NothingAssumption
         DEF ActiveIsEnabled, StoredNeedsNoRepair, StoredLoadable, QuietBefore,
             Sound, Loadable
    <2>4. SavedWhenQuiet'
      <3> SUFFICES ASSUME saves' = <<>>  PROVE stored' = memory
        BY <1>5 DEF SavedWhenQuiet
      <3>1. Len(saves) = 1
        BY <1>2, <1>4
      <3> QED BY <3>1, <2>1, <1>2 DEF LastSaveIsMemory
    <2> QED BY <2>2, <2>3, <2>4, <1>6, <1>7
  <1>9. CASE ~ok
    <2>1. stored' = stored /\ alone' = alone \ {p}
          /\ calls' = [calls EXCEPT ![p] = Nobody]
      BY <1>9 DEF SaveSettles
    <2>2. TypeOK'
      BY <2>1, <1>4, <1>5 DEF TypeOK
    <2>3. /\ ActiveIsEnabled' /\ StoredNeedsNoRepair' /\ StoredLoadable'
          /\ QuietBefore' /\ SavedWhenQuiet'
      BY <2>1, <1>1, <1>5, <1>9
         DEF ActiveIsEnabled, StoredNeedsNoRepair, StoredLoadable, QuietBefore,
             SavedWhenQuiet, Sound, Loadable
    <2> QED BY <2>2, <2>3, <1>6, <1>7
  <1> QED BY <1>8, <1>9

\* Steps that touch neither the characters nor the store.
LEMMA QuietStep ==
  ASSUME Inv, TypeOK', UNCHANGED <<manager, memory, stored, saves, failed>>,
         manager # "initialized" => calls' = calls
  PROVE  Inv'
  BY DEF Inv, ActiveIsEnabled, StoredNeedsNoRepair, SavedWhenQuiet, SavesSound,
         StoredLoadable, LastSaveIsMemory, QuietBefore, Sound, Loadable

\* Publishing an event keeps it.
LEMMA PublishStep ==
  ASSUME Inv, NEW p \in Callers, Publish(p)
  PROVE  Inv'
  <1> DEFINE event == Head(calls[p].events)
             call == [calls[p] EXCEPT !.events = Tail(@)]
  <1>1. calls[p] \in Operation /\ manager = "initialized"
    BY DEF Publish, At, Inv, TypeOK, QuietBefore
  <1>2. calls[p].events \in Seq(Event) /\ calls[p].events # <<>>
    BY <1>1 DEF Publish, Operation
  <1>3. event \in Event /\ Tail(calls[p].events) \in Seq(Event)
    BY <1>2
  <1>4. call \in Operation
    BY <1>1, <1>3 DEF Operation
  <1>5. calls' = [calls EXCEPT ![p] = call] /\ Hear(event)
        /\ UNCHANGED <<manager, memory, stored, saves, failed, alone>>
    BY DEF Publish
  <1> HIDE DEF event, call
  <1>6. heard' \in [known : SUBSET Ids, active : Ids]
    BY <1>3, <1>5 DEF Hear, Event, Inv, TypeOK
  <1>7. TypeOK'
    BY <1>4, <1>5, <1>6 DEF Inv, TypeOK
  <1> QED BY <1>1, <1>5, <1>7, QuietStep

\* The return of an operation keeps it.
LEMMA ReturnStep ==
  ASSUME Inv, NEW p \in Callers, Return(p)
  PROVE  Inv'
  <1>1. TypeOK'
    BY DEF Inv, TypeOK, Return
  <1>2. manager = "initialized"
    BY DEF Return, At, Inv, QuietBefore
  <1> QED BY <1>1, <1>2, QuietStep DEF Return

-----------------------------------------------------------------------------
(* The theorems.                                                           *)

\* The invariant holds before initialize.
LEMMA InitInv == Init => Inv
  <1> SUFFICES ASSUME Init PROVE Inv
    OBVIOUS
  <1>1. TypeOK
    BY StartValues DEF Init, TypeOK
  <1> QED
    BY <1>1 DEF Init, Inv, ActiveIsEnabled, StoredNeedsNoRepair, SavedWhenQuiet,
                SavesSound, StoredLoadable, LastSaveIsMemory, QuietBefore

\* Every step keeps the invariant.
LEMMA NextInv == Inv /\ [Next]_vars => Inv'
  <1> SUFFICES ASSUME Inv, [Next]_vars PROVE Inv'
    OBVIOUS
  <1>1. CASE Initialize
    BY <1>1, InitializeStep
  <1>2. CASE InitializeSaved
    BY <1>2, InitializeSavedStep
  <1>3. CASE Restart
    BY <1>3, RestartStep
  <1>4. ASSUME NEW p \in Callers, NEW id \in Ids, NEW on \in BOOLEAN,
               CreateCharacter(p, id, on) \/ UpdateCharacter(p, id, on)
        PROVE  Inv'
    BY <1>4, CreateStep, UpdateStep
  <1>5. ASSUME NEW p \in Callers, NEW id \in Ids,
               DeleteCharacter(p, id) \/ SetActiveCharacter(p, id)
        PROVE  Inv'
    BY <1>5, DeleteStep, SetActiveStep
  <1>6. ASSUME NEW p \in Callers, NEW ok \in BOOLEAN, SaveSettles(p, ok)
        PROVE  Inv'
    BY <1>6, SaveSettlesStep
  <1>7. ASSUME NEW p \in Callers, Publish(p) \/ Return(p)
        PROVE  Inv'
    BY <1>7, PublishStep, ReturnStep
  <1>8. CASE UNCHANGED vars
    <2>1. TypeOK'
      BY <1>8 DEF Inv, TypeOK, vars
    <2> QED BY <1>8, <2>1, QuietStep DEF vars
  <1> QED BY <1>1, <1>2, <1>3, <1>4, <1>5, <1>6, <1>7, <1>8 DEF Next

\* The invariant holds in every state of every behaviour of the manager.
THEOREM CharactersInvariance == Spec => []Inv
  BY InitInv, NextInv, PTL DEF Spec

\* The variables keep their types.
THEOREM CharactersTypeCorrect == Spec => []TypeOK
  <1>1. Inv => TypeOK
    BY DEF Inv
  <1> QED BY <1>1, CharactersInvariance, PTL

\* The active character exists and is enabled, whatever operations overlap
\* and whichever saves fail.
THEOREM ActiveIsEnabledHolds == Spec => []ActiveIsEnabled
  <1>1. Inv => ActiveIsEnabled
    BY DEF Inv
  <1> QED BY <1>1, CharactersInvariance, PTL

\* What has been saved needs no repair at the next start.
THEOREM StoredNeedsNoRepairHolds == Spec => []StoredNeedsNoRepair
  <1>1. Inv => StoredNeedsNoRepair
    BY DEF Inv
  <1> QED BY <1>1, CharactersInvariance, PTL

\* Without a save on its way, and after one that has not failed, the store
\* holds what the memory does.
THEOREM SavedWhenQuietHolds == Spec => []SavedWhenQuiet
  <1>1. Inv => SavedWhenQuiet
    BY DEF Inv
  <1> QED BY <1>1, CharactersInvariance, PTL

-----------------------------------------------------------------------------
(* Subscribers.                                                            *)

\* What a subscriber that knows h knows after an event: Hear as a function.
Hearing(h, event) ==
  CASE event.type = "created" -> [h EXCEPT !.known = @ \cup {event.id}]
    [] event.type = "updated" -> h
    [] event.type = "deleted" -> [h EXCEPT !.known = @ \ {event.id}]
    [] event.type = "activated" -> [h EXCEPT !.active = event.id]

\* ... and after the events of an operation, of which there are at most three.
After(h, events) ==
  CASE Len(events) = 0 -> h
    [] Len(events) = 1 -> Hearing(h, events[1])
    [] Len(events) = 2 -> Hearing(Hearing(h, events[1]), events[2])
    [] Len(events) = 3 ->
         Hearing(Hearing(Hearing(h, events[1]), events[2]), events[3])

\* What SubscribersFollow demands of a subscriber that knows h.
Follows(h, m) ==
  /\ h.known = m.known
  /\ h.active # m.active => m.known = {Default} /\ h.active \notin h.known

\* No operation is in progress beside one that is alone.
Sole ==
  \A p \in alone :
    calls[p] # Nobody /\ \A q \in Callers \ {p} : calls[q] = Nobody

\* The events it has not published yet tell subscribers all there is to know.
EventsTell ==
  \A p \in alone :
    /\ Len(calls[p].events) <= 3
    /\ Follows(After(heard, calls[p].events), memory)

FollowInv == Inv /\ Sole /\ EventsTell

\* An event turns knowledge into knowledge.
LEMMA HearingType ==
  ASSUME NEW h \in [known : SUBSET Ids, active : Ids], NEW event \in Event
  PROVE  Hearing(h, event) \in [known : SUBSET Ids, active : Ids]
  BY DEF Hearing, Event

\* Short sequences of events, and what they tell.
LEMMA OneEvent ==
  ASSUME NEW a \in Event, NEW h
  PROVE  /\ <<a>> \in Seq(Event) /\ Len(<<a>>) <= 3
         /\ After(h, <<a>>) = Hearing(h, a)
  <1>1. /\ <<a>> \in Seq(Event) /\ Len(<<a>>) = 1 /\ <<a>>[1] = a
    OBVIOUS
  <1>2. After(h, <<a>>) = Hearing(h, a)
    BY <1>1 DEF After
  <1> QED BY <1>1, <1>2

LEMMA TwoEvents ==
  ASSUME NEW a \in Event, NEW b \in Event, NEW h
  PROVE  /\ <<a, b>> \in Seq(Event) /\ Len(<<a, b>>) <= 3
         /\ After(h, <<a, b>>) = Hearing(Hearing(h, a), b)
  <1>1. /\ <<a, b>> \in Seq(Event) /\ Len(<<a, b>>) = 2
        /\ <<a, b>>[1] = a /\ <<a, b>>[2] = b
    OBVIOUS
  <1>2. After(h, <<a, b>>) = Hearing(Hearing(h, a), b)
    BY <1>1 DEF After
  <1> QED BY <1>1, <1>2

LEMMA ThreeEvents ==
  ASSUME NEW a \in Event, NEW b \in Event, NEW c \in Event, NEW h
  PROVE  /\ <<a, b, c>> \in Seq(Event) /\ Len(<<a, b, c>>) <= 3
         /\ After(h, <<a, b, c>>) = Hearing(Hearing(Hearing(h, a), b), c)
  <1>1. /\ <<a, b, c>> \in Seq(Event) /\ Len(<<a, b, c>>) = 3
        /\ <<a, b, c>>[1] = a /\ <<a, b, c>>[2] = b /\ <<a, b, c>>[3] = c
    OBVIOUS
  <1>2. After(h, <<a, b, c>>) = Hearing(Hearing(Hearing(h, a), b), c)
    BY <1>1 DEF After
  <1> QED BY <1>1, <1>2

\* Hearing the first event leaves the others to be heard.
LEMMA AfterHead ==
  ASSUME NEW h, NEW events \in Seq(Event), events # <<>>, Len(events) <= 3
  PROVE  /\ Len(Tail(events)) <= 3
         /\ After(Hearing(h, Head(events)), Tail(events)) = After(h, events)
  <1> DEFINE tail == Tail(events)
  <1>1. /\ Len(tail) = Len(events) - 1
        /\ \A i \in 1 .. Len(tail) : tail[i] = events[i + 1]
    BY HeadTailProperties
  <1>5. Len(events) \in {1, 2, 3}
    <2>1. Len(events) \in Nat /\ Len(events) # 0
      BY EmptySeq
    <2>2. \A n \in Nat : n # 0 /\ n <= 3 => n \in {1, 2, 3}
      OBVIOUS
    <2> QED BY <2>1, <2>2
  <1> SUFFICES /\ Len(tail) <= 3
               /\ After(Hearing(h, events[1]), tail) = After(h, events)
    OBVIOUS
  <1> HIDE DEF tail
  <1>2. CASE Len(events) = 1
    BY <1>1, <1>2 DEF After
  <1>3. CASE Len(events) = 2
    <2>1. Len(tail) = 1 /\ tail[1] = events[2]
      BY <1>1, <1>3
    <2> QED BY <1>3, <2>1 DEF After
  <1>4. CASE Len(events) = 3
    <2>1. Len(tail) = 2 /\ tail[1] = events[2] /\ tail[2] = events[3]
      BY <1>1, <1>4
    <2> QED BY <1>4, <2>1 DEF After
  <1> QED BY <1>1, <1>2, <1>3, <1>4, <1>5

\* An operation whose events tell what it does keeps the invariant.
LEMMA PerformTells ==
  ASSUME FollowInv, Inv', NEW p \in Callers, MayCall(p), NEW next \in State,
         NEW events \in Seq(Event), Len(events) <= 3,
         heard = Knowledge(memory) => Follows(After(heard, events), next),
         Perform(p, next, events)
  PROVE  FollowInv'
  <1> DEFINE call == [pc |-> "saving", events |-> events]
  <1>1. /\ calls' = [calls EXCEPT ![p] = call] /\ memory' = next /\ heard' = heard
        /\ calls \in [Callers -> Operation \cup {Nobody}]
    BY DEF Perform, FollowInv, Inv, TypeOK
  <1>2. calls'[p] = call /\ \A q \in Callers \ {p} : calls'[q] = calls[q]
    BY <1>1
  <1>3. CASE alone' = {}
    BY <1>3 DEF FollowInv, Sole, EventsTell
  <1>4. CASE /\ alone' = {p} /\ heard = Knowledge(memory)
             /\ \A q \in Callers : calls[q] = Nobody
    <2>1. call \in Operation
      BY DEF Operation
    <2>2. calls'[p] # Nobody /\ calls'[p].events = events
      BY <1>2, <2>1, NobodyAssumption
    <2> HIDE DEF call
    <2> QED BY <1>1, <1>2, <1>4, <2>2 DEF FollowInv, Sole, EventsTell
  <1> QED BY <1>3, <1>4 DEF Perform

\* Creating, updating and deleting a character and activating one.
LEMMA CreateTells ==
  ASSUME FollowInv, Inv', NEW p \in Callers, NEW id \in Ids, NEW on \in BOOLEAN,
         CreateCharacter(p, id, on)
  PROVE  FollowInv'
  <1> DEFINE next == [memory EXCEPT !.known = @ \cup {id},
                                    !.enabled = IF on THEN @ \cup {id} ELSE @]
             events == <<Created(id)>>
  <1>1. MayCall(p) /\ Perform(p, next, events) /\ memory \in State
    BY DEF CreateCharacter, MayCall, FollowInv, Inv, TypeOK
  <1>2. next \in State
    BY <1>1 DEF State
  <1>3. /\ events \in Seq(Event) /\ Len(events) <= 3
        /\ After(heard, events) = Hearing(heard, Created(id))
    BY EventFacts, OneEvent
  <1>4. ASSUME heard = Knowledge(memory)
        PROVE  Follows(After(heard, events), next)
    <2> HIDE DEF events
    <2> QED BY <1>1, <1>3, <1>4 DEF Follows, Hearing, Created, Knowledge, State
  <1> HIDE DEF next, events
  <1> QED BY <1>1, <1>2, <1>3, <1>4, PerformTells

LEMMA UpdateTells ==
  ASSUME FollowInv, Inv', NEW p \in Callers, NEW id \in Ids, NEW on \in BOOLEAN,
         UpdateCharacter(p, id, on)
  PROVE  FollowInv'
  <1> DEFINE next == [memory EXCEPT !.enabled =
                        IF on THEN @ \cup {id} ELSE @ \ {id}]
             events == <<Updated(id)>>
  <1>1. MayCall(p) /\ Perform(p, next, events) /\ memory \in State
    BY DEF UpdateCharacter, MayCall, FollowInv, Inv, TypeOK
  <1>2. next \in State
    BY <1>1 DEF State
  <1>3. /\ events \in Seq(Event) /\ Len(events) <= 3
        /\ After(heard, events) = Hearing(heard, Updated(id))
    BY EventFacts, OneEvent
  <1>4. ASSUME heard = Knowledge(memory)
        PROVE  Follows(After(heard, events), next)
    <2> HIDE DEF events
    <2> QED BY <1>1, <1>3, <1>4 DEF Follows, Hearing, Updated, Knowledge, State
  <1> HIDE DEF next, events
  <1> QED BY <1>1, <1>2, <1>3, <1>4, PerformTells

LEMMA SetActiveTells ==
  ASSUME FollowInv, Inv', NEW p \in Callers, NEW id \in Ids,
         SetActiveCharacter(p, id)
  PROVE  FollowInv'
  <1> DEFINE next == [memory EXCEPT !.active = id]
             events == <<Activated(id)>>
  <1>1. MayCall(p) /\ Perform(p, next, events) /\ memory \in State
    BY DEF SetActiveCharacter, MayCall, FollowInv, Inv, TypeOK
  <1>2. next \in State
    BY <1>1 DEF State
  <1>3. /\ events \in Seq(Event) /\ Len(events) <= 3
        /\ After(heard, events) = Hearing(heard, Activated(id))
    BY EventFacts, OneEvent
  <1>4. ASSUME heard = Knowledge(memory)
        PROVE  Follows(After(heard, events), next)
    <2> HIDE DEF events
    <2> QED BY <1>1, <1>3, <1>4 DEF Follows, Hearing, Activated, Knowledge, State
  <1> HIDE DEF next, events
  <1> QED BY <1>1, <1>2, <1>3, <1>4, PerformTells

\* What the repair of a state makes of it when its active character is gone.
LEMMA RepairedCases ==
  ASSUME NEW s \in State, s.active \notin s.enabled, NEW next \in Repaired(s)
  PROVE  /\ s.enabled = {} =>
              next.known = s.known \cup {Default} /\ next.active = Default
         /\ s.enabled # {} => next.known = s.known /\ next.active \in s.enabled
  <1>1. CASE s.enabled = {}
    BY <1>1 DEF Repaired, WithDefault
  <1>2. CASE s.enabled # {}
    <2>1. PICK id \in s.enabled : next = [s EXCEPT !.active = id]
      BY <1>2 DEF Repaired
    <2>2. next.known = s.known /\ next.active = id
      BY <2>1 DEF State
    <2> QED BY <1>2, <2>2
  <1> QED BY <1>1, <1>2

\* The events of a deletion tell what it does; that the default character is
\* active, which is not announced when it is the only one, need not be told.
LEMMA ReplacementTells ==
  ASSUME memory \in State, Sound(memory), NEW id \in memory.known,
         NEW h, h = Knowledge(memory), NEW rest \in State, NEW next \in State,
         rest = [memory EXCEPT !.known = @ \ {id}, !.enabled = @ \ {id}],
         next \in IF id = memory.active THEN Repaired(rest) ELSE {rest}
  PROVE  /\ ReplacementEvents(id, rest, next) \in Seq(Event)
         /\ Len(ReplacementEvents(id, rest, next)) <= 3
         /\ Follows(After(h, ReplacementEvents(id, rest, next)), next)
  <1> DEFINE events == ReplacementEvents(id, rest, next)
  <1>1. /\ rest.known = memory.known \ {id} /\ rest.enabled = memory.enabled \ {id}
        /\ rest.active = memory.active /\ id \in Ids /\ next.active \in Ids
        /\ h.known = memory.known /\ h.active = memory.active
        /\ h = [known |-> memory.known, active |-> memory.active]
        /\ memory.active \in Ids
    BY DEF State, Knowledge
  <1>2. /\ Deleted(id) \in Event /\ Created(Default) \in Event
        /\ Activated(Default) \in Event /\ Activated(next.active) \in Event
    BY <1>1, EventFacts, DefaultAssumption
  <1> DEFINE g == [known |-> rest.known, active |-> memory.active]
  <1>3. Hearing(h, Deleted(id)) = g
    BY <1>1 DEF Hearing, Deleted
  <1>4. Hearing(g, Created(Default)) =
          [known |-> rest.known \cup {Default}, active |-> memory.active]
    BY DEF Hearing, Created
  <1>5. CASE next = rest
    <2>1. events = <<Deleted(id)>>
      BY <1>5 DEF ReplacementEvents
    <2>2. Follows(Hearing(h, Deleted(id)), next)
      BY <1>1, <1>3, <1>5 DEF Follows
    <2> QED BY <1>2, <2>1, <2>2, OneEvent
  <1>6. CASE next # rest /\ rest.enabled = {}
    <2>1. id = memory.active
      BY <1>6
    <2>2. next.known = rest.known \cup {Default} /\ next.active = Default
      BY <1>1, <1>6, <2>1, RepairedCases
    <2>3. CASE rest.known = {}
      <3>1. events = <<Deleted(id), Created(Default)>>
        BY <1>6, <2>3 DEF ReplacementEvents
      <3>2. Follows(Hearing(Hearing(h, Deleted(id)), Created(Default)), next)
        <4> DEFINE k == [known |-> rest.known \cup {Default},
                         active |-> memory.active]
        <4>1. Hearing(Hearing(h, Deleted(id)), Created(Default)) = k
          BY <1>3, <1>4
        <4>2. next.known = {Default} /\ memory.active \notin rest.known
          BY <1>1, <2>1, <2>2, <2>3
        <4>3. Follows(k, next)
          BY <2>2, <2>3, <4>2 DEF Follows
        <4> QED BY <4>1, <4>3
      <3> QED BY <1>2, <3>1, <3>2, TwoEvents
    <2>4. CASE rest.known # {}
      <3>1. events = <<Deleted(id), Created(Default), Activated(Default)>>
        BY <1>6, <2>4 DEF ReplacementEvents
      <3>2. Follows(Hearing(Hearing(Hearing(h, Deleted(id)), Created(Default)),
                            Activated(Default)), next)
        <4> DEFINE k == [known |-> rest.known \cup {Default},
                         active |-> memory.active]
        <4>1. Hearing(Hearing(h, Deleted(id)), Created(Default)) = k
          BY <1>3, <1>4
        <4>2. Hearing(k, Activated(Default)) = [k EXCEPT !.active = Default]
          BY DEF Hearing, Activated
        <4> QED BY <2>2, <4>1, <4>2 DEF Follows
      <3> QED BY <1>2, <3>1, <3>2, ThreeEvents
    <2> QED BY <2>3, <2>4
  <1>7. CASE next # rest /\ rest.enabled # {}
    <2>1. id = memory.active
      BY <1>7
    <2>2. rest.known # {} /\ next.known = rest.known
      BY <1>1, <1>7, <2>1, RepairedCases DEF Sound
    <2>3. events = <<Deleted(id), Activated(next.active)>>
      BY <1>7, <2>2 DEF ReplacementEvents
    <2>4. Follows(Hearing(Hearing(h, Deleted(id)), Activated(next.active)), next)
      <3>1. Hearing(g, Activated(next.active)) = [g EXCEPT !.active = next.active]
        BY DEF Hearing, Activated
      <3> QED BY <1>3, <2>2, <3>1 DEF Follows
    <2> QED BY <1>2, <2>3, <2>4, TwoEvents
  <1> QED BY <1>5, <1>6, <1>7

LEMMA DeleteTells ==
  ASSUME FollowInv, Inv', NEW p \in Callers, NEW id \in Ids,
         DeleteCharacter(p, id)
  PROVE  FollowInv'
  <1> DEFINE rest == [memory EXCEPT !.known = @ \ {id}, !.enabled = @ \ {id}]
  <1>1. PICK next \in IF id = memory.active THEN Repaired(rest) ELSE {rest} :
          Perform(p, next, ReplacementEvents(id, rest, next))
    BY DEF DeleteCharacter
  <1>2. MayCall(p) /\ id \in memory.known
    BY DEF DeleteCharacter
  <1>3. memory \in State /\ Sound(memory)
    BY <1>2 DEF FollowInv, Inv, TypeOK, ActiveIsEnabled, MayCall
  <1>4. rest \in State
    BY <1>3 DEF State
  <1>5. next \in State
    BY <1>1, <1>2 DEF Perform, MayCall, Inv, TypeOK
  <1>6. /\ ReplacementEvents(id, rest, next) \in Seq(Event)
        /\ Len(ReplacementEvents(id, rest, next)) <= 3
        /\ heard = Knowledge(memory) =>
             Follows(After(heard, ReplacementEvents(id, rest, next)), next)
    <2>1. rest = [memory EXCEPT !.known = @ \ {id}, !.enabled = @ \ {id}]
      OBVIOUS
    <2> HIDE DEF rest
    <2>2. /\ ReplacementEvents(id, rest, next) \in Seq(Event)
          /\ Len(ReplacementEvents(id, rest, next)) <= 3
      BY <1>1, <1>2, <1>3, <1>4, <1>5, <2>1, ReplacementTells
    <2>3. ASSUME heard = Knowledge(memory)
          PROVE  Follows(After(heard, ReplacementEvents(id, rest, next)), next)
      BY <1>1, <1>2, <1>3, <1>4, <1>5, <2>1, <2>3, ReplacementTells
    <2> QED BY <2>2, <2>3
  <1> HIDE DEF rest
  <1> QED BY <1>1, <1>2, <1>5, <1>6, PerformTells

\* A save that succeeds leaves the events to be published; one that fails
\* ends the operation.
LEMMA SaveSettlesTells ==
  ASSUME FollowInv, Inv', NEW p \in Callers, NEW ok \in BOOLEAN,
         SaveSettles(p, ok)
  PROVE  FollowInv'
  <1>1. /\ calls \in [Callers -> Operation \cup {Nobody}]
        /\ calls[p] # Nobody /\ calls[p] \in Operation
        /\ UNCHANGED <<memory, heard>>
    BY DEF SaveSettles, At, FollowInv, Inv, TypeOK
  <1>2. CASE ok
    <2> DEFINE call == [calls[p] EXCEPT !.pc = "publishing"]
    <2>1. call \in Operation /\ call.events = calls[p].events
      BY <1>1 DEF Operation
    <2>2. alone' = alone /\ calls' = [calls EXCEPT ![p] = call]
      BY <1>2 DEF SaveSettles
    <2> HIDE DEF call
    <2>3. \A q \in Callers :
            /\ calls'[q] = Nobody <=> calls[q] = Nobody
            /\ calls[q] # Nobody => calls'[q].events = calls[q].events
      BY <1>1, <2>1, <2>2, NobodyAssumption
    <2>4. alone \subseteq Callers
      BY DEF FollowInv, Inv, TypeOK
    <2>5. Sole'
      BY <2>2, <2>3, <2>4 DEF FollowInv, Sole
    <2>6. EventsTell'
      BY <1>1, <2>2, <2>3, <2>4 DEF FollowInv, Sole, EventsTell
    <2> QED BY <2>5, <2>6 DEF FollowInv
  <1>3. CASE ~ok
    <2>1. alone' = alone \ {p} /\ calls' = [calls EXCEPT ![p] = Nobody]
      BY <1>3 DEF SaveSettles
    <2>2. alone' = {}
      BY <1>1, <2>1 DEF FollowInv, Sole, Inv, TypeOK
    <2> QED BY <2>2 DEF FollowInv, Sole, EventsTell
  <1> QED BY <1>2, <1>3

\* The event that is published moves what subscribers know towards what the
\* others will tell them.
LEMMA PublishTells ==
  ASSUME FollowInv, Inv', NEW p \in Callers, Publish(p)
  PROVE  FollowInv'
  <1> DEFINE call == [calls[p] EXCEPT !.events = Tail(@)]
  <1>1. /\ calls \in [Callers -> Operation \cup {Nobody}]
        /\ calls[p] # Nobody /\ calls[p] \in Operation
        /\ calls[p].events # <<>>
        /\ calls' = [calls EXCEPT ![p] = call]
        /\ UNCHANGED <<memory, alone>> /\ alone \subseteq Callers
    BY DEF Publish, At, FollowInv, Inv, TypeOK
  <1>8. calls[p].events \in Seq(Event) /\ Tail(calls[p].events) \in Seq(Event)
    BY <1>1 DEF Operation
  <1>2. call \in Operation /\ call.events = Tail(calls[p].events)
    BY <1>1, <1>8 DEF Operation
  <1>3. heard' = Hearing(heard, Head(calls[p].events))
    BY DEF Publish, Hear, Hearing
  <1> HIDE DEF call
  <1>4. \A q \in Callers : calls'[q] = Nobody <=> calls[q] = Nobody
    BY <1>1, <1>2, NobodyAssumption
  <1>5. Sole'
    BY <1>1, <1>4 DEF FollowInv, Sole
  <1>6. ASSUME NEW q \in alone
        PROVE  /\ Len(calls'[q].events) <= 3
               /\ Follows(After(heard', calls'[q].events), memory')
    <2>1. q = p
      BY <1>1, <1>6 DEF FollowInv, Sole
    <2>2. calls'[q].events = Tail(calls[p].events)
      BY <1>1, <1>2, <2>1
    <2>3. /\ Len(calls[p].events) <= 3
          /\ Follows(After(heard, calls[p].events), memory)
      BY <1>6, <2>1 DEF FollowInv, EventsTell
    <2> QED BY <1>1, <1>3, <1>8, <2>2, <2>3, AfterHead
  <1>7. EventsTell'
    BY <1>1, <1>6 DEF EventsTell
  <1> QED BY <1>5, <1>7 DEF FollowInv

\* The steps that leave nobody alone.
LEMMA ReturnTells ==
  ASSUME FollowInv, Inv', NEW p \in Callers, Return(p)
  PROVE  FollowInv'
  <1>1. alone' = {}
    BY DEF Return, At, FollowInv, Sole, Inv, TypeOK
  <1> QED BY <1>1 DEF FollowInv, Sole, EventsTell

LEMMA NobodyAlone ==
  ASSUME FollowInv, Inv', Initialize \/ InitializeSaved \/ Restart
  PROVE  FollowInv'
  <1>1. CASE Restart
    BY <1>1 DEF Restart, FollowInv, Sole, EventsTell
  <1>2. CASE Initialize \/ InitializeSaved
    <2>1. manager # "initialized" /\ alone' = alone
      BY <1>2 DEF Initialize, InitializeSaved
    <2>2. alone' = {}
      BY <2>1 DEF FollowInv, Inv, QuietBefore, Sole, TypeOK
    <2> QED BY <2>2 DEF FollowInv, Sole, EventsTell
  <1> QED BY <1>1, <1>2

LEMMA InitTells == Init => FollowInv
  BY InitInv DEF Init, FollowInv, Sole, EventsTell

LEMMA NextTells == FollowInv /\ [Next]_vars => FollowInv'
  <1> SUFFICES ASSUME FollowInv, [Next]_vars PROVE FollowInv'
    OBVIOUS
  <1>1. Inv'
    BY NextInv DEF FollowInv
  <1>2. CASE Initialize \/ InitializeSaved \/ Restart
    BY <1>1, <1>2, NobodyAlone
  <1>3. ASSUME NEW p \in Callers, NEW id \in Ids, NEW on \in BOOLEAN,
               CreateCharacter(p, id, on) \/ UpdateCharacter(p, id, on)
        PROVE  FollowInv'
    BY <1>1, <1>3, CreateTells, UpdateTells
  <1>4. ASSUME NEW p \in Callers, NEW id \in Ids,
               DeleteCharacter(p, id) \/ SetActiveCharacter(p, id)
        PROVE  FollowInv'
    BY <1>1, <1>4, DeleteTells, SetActiveTells
  <1>5. ASSUME NEW p \in Callers, NEW ok \in BOOLEAN, SaveSettles(p, ok)
        PROVE  FollowInv'
    BY <1>1, <1>5, SaveSettlesTells
  <1>6. ASSUME NEW p \in Callers, Publish(p) \/ Return(p)
        PROVE  FollowInv'
    BY <1>1, <1>6, PublishTells, ReturnTells
  <1>7. CASE UNCHANGED vars
    BY <1>1, <1>7 DEF vars, FollowInv, Sole, EventsTell
  <1> QED BY <1>2, <1>3, <1>4, <1>5, <1>6, <1>7 DEF Next

\* When an operation that has had the manager for itself returns, the events
\* have told subscribers which characters there are and which is active.
THEOREM SubscribersFollowHolds == Spec => []SubscribersFollow
  <1>1. FollowInv => SubscribersFollow
    <2> SUFFICES ASSUME FollowInv, NEW p \in alone, calls[p].events = <<>>
                 PROVE  Follows(heard, memory)
      BY DEF SubscribersFollow, Follows
    <2>1. Len(calls[p].events) = 0
      OBVIOUS
    <2>2. After(heard, calls[p].events) = heard
      BY <2>1 DEF After
    <2> QED BY <2>2 DEF FollowInv, EventsTell
  <1> QED BY InitTells, NextTells, <1>1, PTL DEF Spec
=============================================================================
