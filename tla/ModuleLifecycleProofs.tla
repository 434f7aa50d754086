----------------------- MODULE ModuleLifecycleProofs -----------------------
(***************************************************************************)
(* Proofs about ModuleLifecycle for any set of modules and of callers: its *)
(* types, RunningIsLive, DisabledUntilEnabled and SweepsReachAll.  The     *)
(* invariant of the first three, Inv, adds that an operation that waits    *)
(* for a hook has a module it is at; that of the last one, SweepsInv, what *)
(* a sweep that is alone has done with the modules it has passed.          *)
(***************************************************************************)
EXTENDS ModuleLifecycle, SequenceTheorems, TLAPS

\* An operation has a target whenever it uses it.
HasTarget ==
  \A p \in Callers :
    calls[p] # Nobody /\ (calls[p].op \in Singles \/ calls[p].pc \in Awaited) =>
      calls[p].left # <<>>

Inv == TypeOK /\ RunningIsLive /\ HasTarget

\* What DisabledUntilEnabled says of one step.
StepKeepsDisabled ==
  \A m \in Modules :
    state[m] = "disabled" /\ state'[m] # "disabled" =>
      \E p \in Callers :
        At(p, "next") /\ calls[p].op = "enable" /\ Target(p) = m

\* What the proof of an action shows.
Good == Inv' /\ StepKeepsDisabled

-----------------------------------------------------------------------------
(* The parts of the actions.                                               *)

\* No operation is Nobody, and its fields have their types.
LEMMA OperationFacts ==
  ASSUME TypeOK, NEW p \in Callers, calls[p] # Nobody
  PROVE  /\ calls[p] \in Operation
         /\ calls[p].left \in Seq(Modules)
         /\ calls[p].op \in Sweeps \cup Singles
         /\ calls[p].pc \in Awaited \cup {"next", "resolved", "rejected"}
         /\ calls[p].left # <<>> => Target(p) \in Modules
  <1>1. calls[p] \in Operation
    BY DEF TypeOK
  <1>2. /\ calls[p].left \in Seq(Modules)
        /\ calls[p].op \in Sweeps \cup Singles
        /\ calls[p].pc \in Awaited \cup {"next", "resolved", "rejected"}
    BY <1>1 DEF Operation
  <1>3. calls[p].left # <<>> => Target(p) \in Modules
    BY <1>2 DEF Target
  <1> QED BY <1>1, <1>2, <1>3

\* Updating the operation of one caller by one with a target.
LEMMA UpdateFacts ==
  ASSUME Inv, NEW p \in Callers, NEW call \in Operation,
         calls' = [calls EXCEPT ![p] = call],
         call.op \in Singles \/ call.pc \in Awaited => call.left # <<>>
  PROVE  calls' \in [Callers -> Operation \cup {Nobody}] /\ HasTarget'
  BY DEF Inv, TypeOK, HasTarget

\* Waiting for something else.
LEMMA ContinueFacts ==
  ASSUME Inv, NEW p \in Callers, calls[p] # Nobody,
         NEW pc \in Awaited \cup {"next", "resolved", "rejected"},
         Continue(p, pc), pc \in Awaited => calls[p].left # <<>>
  PROVE  calls' \in [Callers -> Operation \cup {Nobody}] /\ HasTarget'
  <1> DEFINE call == [calls[p] EXCEPT !.pc = pc]
  <1>1. calls[p] \in Operation
    BY OperationFacts DEF Inv
  <1>2. call \in Operation /\ call.pc = pc /\ call.op = calls[p].op
        /\ call.left = calls[p].left
    BY <1>1 DEF Operation
  <1>3. calls' = [calls EXCEPT ![p] = call]
    BY DEF Continue
  <1>4. call.op \in Singles => call.left # <<>>
    BY <1>2 DEF Inv, HasTarget
  <1> HIDE DEF call
  <1> QED BY <1>2, <1>3, <1>4, UpdateFacts

\* A sweep drops the module it was at, and may remember an exception.
LEMMA DropFacts ==
  ASSUME Inv, NEW p \in Callers, calls[p] # Nobody, IsSweep(p),
         calls[p].left # <<>>, NEW call,
         call = [calls[p] EXCEPT !.left = Tail(@), !.pc = "next"]
         \/ call = [calls[p] EXCEPT !.left = Tail(@), !.pc = "next",
                                   !.fatal = TRUE],
         calls' = [calls EXCEPT ![p] = call]
  PROVE  calls' \in [Callers -> Operation \cup {Nobody}] /\ HasTarget'
  <1>1. calls[p] \in Operation /\ calls[p].left \in Seq(Modules)
    BY OperationFacts DEF Inv
  <1>2. Tail(calls[p].left) \in Seq(Modules)
    BY <1>1
  <1>3. call \in Operation /\ call.pc = "next" /\ call.op = calls[p].op
    BY <1>1, <1>2 DEF Operation
  <1>4. call.op \notin Singles /\ call.pc \notin Awaited
    BY <1>3 DEF IsSweep, Sweeps, Singles, Awaited
  <1> QED BY <1>3, <1>4, UpdateFacts

\* Proceeding.
LEMMA ProceedFacts ==
  ASSUME Inv, NEW p \in Callers, calls[p] # Nobody, calls[p].left # <<>>,
         Proceed(p)
  PROVE  calls' \in [Callers -> Operation \cup {Nobody}] /\ HasTarget'
  <1>1. CASE IsSweep(p)
    <2> DEFINE call == [calls[p] EXCEPT !.left = Tail(@), !.pc = "next"]
    <2>1. calls' = [calls EXCEPT ![p] = call]
      BY <1>1 DEF Proceed
    <2> QED BY <1>1, <2>1, DropFacts
  <1>2. CASE ~IsSweep(p)
    <2>1. Continue(p, "resolved")
      BY <1>2 DEF Proceed
    <2> QED BY <2>1, ContinueFacts DEF Awaited
  <1> QED BY <1>1, <1>2

\* Throwing.
LEMMA ThrowFacts ==
  ASSUME Inv, NEW p \in Callers, calls[p] # Nobody, calls[p].left # <<>>,
         Throw(p)
  PROVE  calls' \in [Callers -> Operation \cup {Nobody}] /\ HasTarget'
  <1>1. CASE IsSweep(p)
    <2> DEFINE call == [calls[p] EXCEPT !.left = Tail(@), !.pc = "next",
                                        !.fatal = TRUE]
    <2>1. calls' = [calls EXCEPT ![p] = call]
      BY <1>1 DEF Throw
    <2> QED BY <1>1, <2>1, DropFacts
  <1>2. CASE ~IsSweep(p)
    <2>1. Continue(p, "rejected")
      BY <1>2 DEF Throw
    <2> QED BY <2>1, ContinueFacts DEF Awaited
  <1> QED BY <1>1, <1>2

\* A module enters a state that is not "running" or "degraded", none stops:
\* the part of the invariant about states.
LEMMA EnterFacts ==
  ASSUME Inv, NEW m \in Modules, NEW next \in States, Enter(m, next),
         live' \in SUBSET Modules, live \ {m} \subseteq live',
         next \in {"running", "degraded"} => m \in live'
  PROVE  state' \in [Modules -> States] /\ RunningIsLive'
  BY DEF Inv, TypeOK, RunningIsLive, Enter

\* A disabled module is not entered, unless it is disabled once more.
LEMMA EnterKeepsDisabled ==
  ASSUME Inv, NEW m \in Modules, NEW next \in States, Enter(m, next),
         state[m] = "disabled" => next = "disabled"
  PROVE  StepKeepsDisabled
  BY DEF Inv, TypeOK, Enter, StepKeepsDisabled

\* From "disabled" only "installed" is allowed.
LEMMA DisabledIsFinal ==
  ASSUME NEW m \in Modules, state[m] = "disabled", NEW next, Legal(m, next)
  PROVE  next \in {"disabled", "installed"}
  BY DEF Legal, Allowed

\* Putting the parts together.
LEMMA Together ==
  ASSUME Inv,
         calls' \in [Callers -> Operation \cup {Nobody}] /\ HasTarget',
         state' \in [Modules -> States] /\ RunningIsLive',
         live' \in SUBSET Modules, alone' \in SUBSET Callers,
         StepKeepsDisabled
  PROVE  Good
  BY DEF Good, Inv, TypeOK

\* When neither the states nor the live modules change.
LEMMA SameStates ==
  ASSUME Inv, UNCHANGED <<state, live>>
  PROVE  /\ state' \in [Modules -> States] /\ RunningIsLive'
         /\ live' \in SUBSET Modules /\ StepKeepsDisabled
  BY DEF Inv, TypeOK, RunningIsLive, StepKeepsDisabled

-----------------------------------------------------------------------------
(* The actions.                                                            *)

\* The stop order is a sequence of modules.
LEMMA BackwardsFacts ==
  [i \in DOMAIN Order |-> Order[Len(Order) + 1 - i]] \in Seq(Modules)
  <1>1. Order \in Seq(Modules)
    BY ModulesAssumption
  <1>2. Len(Order) \in Nat /\ DOMAIN Order = 1..Len(Order)
    BY <1>1
  <1>3. \A i \in 1..Len(Order) : Len(Order) + 1 - i \in 1..Len(Order)
    BY <1>2
  <1>4. \A i \in 1..Len(Order) : Order[Len(Order) + 1 - i] \in Modules
    BY <1>1, <1>2, <1>3
  <1>5. [i \in 1..Len(Order) |-> Order[Len(Order) + 1 - i]]
          \in [1..Len(Order) -> Modules]
    BY <1>4
  <1> QED BY <1>2, <1>5, SeqDef

\* Every operation that begins has its type, and a target if it needs one.
LEMMA OperationsFacts ==
  ASSUME NEW operation \in Operations
  PROVE  /\ operation \in Operation
         /\ operation.op \in Singles \/ operation.pc \in Awaited =>
              operation.left # <<>>
  <1>1. CASE operation \in [op : {"initializeAll", "startAll", "healthAll"},
                            left : {Order}, pc : {"next"}, fatal : {FALSE}]
    BY <1>1, ModulesAssumption DEF Operation, Sweeps, Singles, Awaited
  <1>2. CASE operation \in
          [op : {"stopAll"}, pc : {"next"}, fatal : {FALSE},
           left : {[i \in DOMAIN Order |-> Order[Len(Order) + 1 - i]]}]
    BY <1>2, BackwardsFacts DEF Operation, Sweeps, Singles, Awaited
  <1>3. CASE operation \in [op : Singles, left : {<<m>> : m \in Modules},
                            pc : {"next"}, fatal : {FALSE}]
    <2>1. PICK m \in Modules : operation.left = <<m>>
      BY <1>3
    <2>2. operation.left \in Seq(Modules) /\ operation.left # <<>>
      BY <2>1
    <2>3. operation = [op |-> operation.op, left |-> operation.left,
                       pc |-> operation.pc, fatal |-> operation.fatal]
          /\ operation.op \in Singles /\ operation.pc = "next"
          /\ operation.fatal = FALSE
      BY <1>3
    <2> QED BY <2>2, <2>3 DEF Operation
  <1> QED BY <1>1, <1>2, <1>3 DEF Operations

\* An operation begins.
LEMMA BeginStep ==
  ASSUME Inv, NEW p \in Callers, NEW operation \in Operations,
         Begin(p, operation)
  PROVE  Good
  <1>1. calls' \in [Callers -> Operation \cup {Nobody}] /\ HasTarget'
    <2>1. calls' = [calls EXCEPT ![p] = operation]
      BY DEF Begin
    <2> QED BY <2>1, OperationsFacts, UpdateFacts
  <1>2. alone' \in SUBSET Callers
    BY DEF Begin, Inv, TypeOK
  <1>3. UNCHANGED <<state, live>>
    BY DEF Begin
  <1> QED BY <1>1, <1>2, <1>3, SameStates, Together

\* An operation has settled and is forgotten.
LEMMA ReturnStep ==
  ASSUME Inv, NEW p \in Callers, Return(p)
  PROVE  Good
  <1>1. calls' \in [Callers -> Operation \cup {Nobody}] /\ HasTarget'
    BY DEF Return, Inv, TypeOK, HasTarget
  <1>2. alone' \in SUBSET Callers /\ UNCHANGED <<state, live>>
    BY DEF Return, Inv, TypeOK
  <1> QED BY <1>1, <1>2, SameStates, Together

\* A sweep goes to the next module that it treats.
LEMMA SweepNextStep ==
  ASSUME Inv, NEW p \in Callers, SweepNext(p)
  PROVE  Good
  <1>1. /\ calls[p] # Nobody /\ calls[p] \in Operation
        /\ calls[p].left \in Seq(Modules) /\ IsSweep(p)
    BY OperationFacts DEF SweepNext, At, Inv
  <1>2. live' \in SUBSET Modules /\ alone' \in SUBSET Callers /\ live' = live
    BY DEF SweepNext, Inv, TypeOK
  <1>3. CASE Continue(p, IF calls[p].fatal THEN "rejected" ELSE "resolved")
             /\ UNCHANGED state
    <2>1. calls' \in [Callers -> Operation \cup {Nobody}] /\ HasTarget'
      BY <1>1, <1>3, ContinueFacts DEF Awaited
    <2> QED BY <2>1, <1>2, <1>3, SameStates, Together
  <1>4. CASE \E i \in DOMAIN calls[p].left :
          /\ state[calls[p].left[i]] \in Treated(calls[p].op)
          /\ calls' = [calls EXCEPT
                ![p].left = SubSeq(@, i, Len(@)), ![p].pc = FirstHook(calls[p].op)]
          /\ IF calls[p].op = "initializeAll"
             THEN Enter(calls[p].left[i], "loading") ELSE UNCHANGED state
    <2>1. PICK i \in DOMAIN calls[p].left :
            /\ state[calls[p].left[i]] \in Treated(calls[p].op)
            /\ calls' = [calls EXCEPT
                  ![p].left = SubSeq(@, i, Len(@)), ![p].pc = FirstHook(calls[p].op)]
            /\ IF calls[p].op = "initializeAll"
               THEN Enter(calls[p].left[i], "loading") ELSE UNCHANGED state
      BY <1>4
    <2> DEFINE rest == SubSeq(calls[p].left, i, Len(calls[p].left))
               call == [calls[p] EXCEPT !.left = rest, !.pc = FirstHook(calls[p].op)]
    <2>2. i \in 1..Len(calls[p].left) /\ Len(calls[p].left) \in Nat
      BY <1>1
    <2>3. rest \in Seq(Modules) /\ rest # <<>>
      <3>1. \A j \in i..Len(calls[p].left) : calls[p].left[j] \in Modules
        BY <1>1, <2>2
      <3>2. rest \in Seq(Modules) /\ Len(rest) = Len(calls[p].left) - i + 1
        BY <1>1, <2>2, <3>1, SubSeqProperties
      <3>3. Len(rest) > 0
        BY <2>2, <3>2
      <3> HIDE DEF rest
      <3> QED BY <3>2, <3>3, EmptySeq
    <2>4. FirstHook(calls[p].op) \in Awaited
      BY <1>1 DEF IsSweep, Sweeps, FirstHook, Awaited
    <2>5. call \in Operation /\ call.left = rest
      BY <1>1, <2>3, <2>4 DEF Operation
    <2>6. calls' = [calls EXCEPT ![p] = call]
      BY <2>1
    <2>7. calls' \in [Callers -> Operation \cup {Nobody}] /\ HasTarget'
      <3> HIDE DEF call, rest
      <3> QED BY <2>3, <2>5, <2>6, UpdateFacts
    <2>8. CASE calls[p].op = "initializeAll"
      <3>1. calls[p].left[i] \in Modules /\ state[calls[p].left[i]] = "installed"
        BY <1>1, <2>1, <2>8 DEF Treated
      <3>2. Enter(calls[p].left[i], "loading")
        BY <2>1, <2>8
      <3>3. "loading" \in States /\ live \ {calls[p].left[i]} \subseteq live'
        BY <1>2 DEF States
      <3>4. state' \in [Modules -> States] /\ RunningIsLive'
        BY <1>2, <3>1, <3>2, <3>3, EnterFacts
      <3>5. StepKeepsDisabled
        BY <3>1, <3>2, <3>3, EnterKeepsDisabled
      <3> QED BY <1>2, <2>7, <3>4, <3>5, Together
    <2>9. CASE calls[p].op # "initializeAll"
      BY <1>2, <2>1, <2>7, <2>9, SameStates, Together
    <2> QED BY <2>8, <2>9
  <1> QED BY <1>3, <1>4 DEF SweepNext

\* What every other action starts from: the target of the operation.
LEMMA TargetFacts ==
  ASSUME Inv, NEW p \in Callers, calls[p] # Nobody,
         calls[p].op \in Singles \/ calls[p].pc \in Awaited
  PROVE  calls[p].left # <<>> /\ Target(p) \in Modules
         /\ state[Target(p)] \in States
  <1>1. calls[p].left # <<>>
    BY DEF Inv, HasTarget
  <1>2. Target(p) \in Modules
    BY <1>1, OperationFacts DEF Inv
  <1> QED BY <1>1, <1>2 DEF Inv, TypeOK

\* restart looks at its module.
LEMMA RestartStep ==
  ASSUME Inv, NEW p \in Callers, Restart(p)
  PROVE  Good
  <1> DEFINE m == Target(p)
  <1>1. calls[p] # Nobody /\ calls[p].op \in Singles
    BY DEF Restart, At, Singles
  <1>2. calls[p].left # <<>> /\ m \in Modules /\ state[m] \in States
    BY <1>1, TargetFacts
  <1>3. live' = live /\ live' \in SUBSET Modules /\ alone' \in SUBSET Callers
    BY DEF Restart, Inv, TypeOK
  <1>4. CASE UNCHANGED state
             /\ \E pc \in {"rejected", "stop", "resolved"} : Continue(p, pc)
    <2>1. calls' \in [Callers -> Operation \cup {Nobody}] /\ HasTarget'
      BY <1>1, <1>2, <1>4, ContinueFacts DEF Awaited
    <2> QED BY <1>3, <1>4, <2>1, SameStates, Together
  <1>5. CASE /\ state[m] \in {"error", "installed"}
             /\ Continue(p, "initialize") /\ Enter(m, "loading")
    <2>1. calls' \in [Callers -> Operation \cup {Nobody}] /\ HasTarget'
      BY <1>1, <1>2, <1>5, ContinueFacts DEF Awaited
    <2>2. state' \in [Modules -> States] /\ RunningIsLive' /\ StepKeepsDisabled
      <3>1. "loading" \in States /\ live \ {m} \subseteq live'
        BY <1>3 DEF States
      <3> HIDE DEF m
      <3> QED BY <1>2, <1>3, <1>5, <3>1, EnterFacts, EnterKeepsDisabled
    <2> QED BY <1>3, <2>1, <2>2, Together
  <1>6. \/ state[m] = "disabled" \/ state[m] \in {"running", "degraded"}
        \/ state[m] \in {"error", "installed"} \/ state[m] \in {"ready", "loading"}
    BY <1>2 DEF States
  <1> QED BY <1>4, <1>5, <1>6 DEF Restart

\* enable looks at its module.
LEMMA EnableStep ==
  ASSUME Inv, NEW p \in Callers, Enable(p)
  PROVE  Good
  <1> DEFINE m == Target(p)
  <1>1. calls[p] # Nobody /\ calls[p].op \in Singles
    BY DEF Enable, At, Singles
  <1>2. calls[p].left # <<>> /\ m \in Modules
    BY <1>1, TargetFacts
  <1>3. live' = live /\ live' \in SUBSET Modules /\ alone' \in SUBSET Callers
    BY DEF Enable, Inv, TypeOK
  <1>4. CASE Continue(p, "rejected") /\ UNCHANGED state
    <2>1. calls' \in [Callers -> Operation \cup {Nobody}] /\ HasTarget'
      BY <1>1, <1>4, ContinueFacts DEF Awaited
    <2> QED BY <1>3, <1>4, <2>1, SameStates, Together
  <1>5. CASE Continue(p, "initialize") /\ Enter(m, "loading")
    <2>1. calls' \in [Callers -> Operation \cup {Nobody}] /\ HasTarget'
      BY <1>1, <1>2, <1>5, ContinueFacts DEF Awaited
    <2>2. state' \in [Modules -> States] /\ RunningIsLive'
      <3>1. "loading" \in States /\ live \ {m} \subseteq live'
        BY <1>3 DEF States
      <3> HIDE DEF m
      <3> QED BY <1>2, <1>3, <1>5, <3>1, EnterFacts
    <2>3. StepKeepsDisabled
      <3>1. At(p, "next") /\ calls[p].op = "enable"
        BY DEF Enable
      <3> QED BY <1>2, <1>5, <3>1 DEF StepKeepsDisabled, Enter, Inv, TypeOK
    <2> QED BY <1>3, <2>1, <2>2, <2>3, Together
  <1> QED BY <1>4, <1>5 DEF Enable

\* disable looks at its module.
LEMMA DisableStep ==
  ASSUME Inv, NEW p \in Callers, Disable(p)
  PROVE  Good
  <1> DEFINE m == Target(p)
  <1>1. calls[p] # Nobody /\ calls[p].op \in Singles
    BY DEF Disable, At, Singles
  <1>2. calls[p].left # <<>> /\ m \in Modules
    BY <1>1, TargetFacts
  <1>3. live' = live /\ live' \in SUBSET Modules /\ alone' \in SUBSET Callers
    BY DEF Disable, Inv, TypeOK
  <1>4. CASE Continue(p, "stop") /\ UNCHANGED state
    <2>1. calls' \in [Callers -> Operation \cup {Nobody}] /\ HasTarget'
      BY <1>1, <1>2, <1>4, ContinueFacts DEF Awaited
    <2> QED BY <1>3, <1>4, <2>1, SameStates, Together
  <1>5. CASE Continue(p, "resolved") /\ Enter(m, "disabled")
    <2>1. calls' \in [Callers -> Operation \cup {Nobody}] /\ HasTarget'
      BY <1>1, <1>2, <1>5, ContinueFacts DEF Awaited
    <2>2. state' \in [Modules -> States] /\ RunningIsLive' /\ StepKeepsDisabled
      <3>1. "disabled" \in States /\ live \ {m} \subseteq live'
        BY <1>3 DEF States
      <3> HIDE DEF m
      <3> QED BY <1>2, <1>3, <1>5, <3>1, EnterFacts, EnterKeepsDisabled
    <2> QED BY <1>3, <2>1, <2>2, Together
  <1> QED BY <1>4, <1>5 DEF Disable

\* health looks at its module.
LEMMA HealthStep ==
  ASSUME Inv, NEW p \in Callers, Health(p)
  PROVE  Good
  <1>1. calls[p] # Nobody /\ calls[p].op \in Singles
    BY DEF Health, At, Singles
  <1>2. calls[p].left # <<>>
    BY <1>1, TargetFacts
  <1>3. live' = live /\ alone' \in SUBSET Callers /\ UNCHANGED state
    BY DEF Health, Inv, TypeOK
  <1>4. calls' \in [Callers -> Operation \cup {Nobody}] /\ HasTarget'
    BY <1>1, <1>2, ContinueFacts DEF Health, Awaited
  <1> QED BY <1>3, <1>4, SameStates, Together

\* restart or enable calls the second hook.
LEMMA StartNextStep ==
  ASSUME Inv, NEW p \in Callers, StartNext(p)
  PROVE  Good
  <1>1. calls[p] # Nobody
    BY DEF StartNext, At
  <1>2. calls[p].left # <<>>
    BY <1>1, TargetFacts DEF StartNext, At, Awaited
  <1>3. live' = live /\ alone' \in SUBSET Callers /\ UNCHANGED state
    BY DEF StartNext, Inv, TypeOK
  <1>4. calls' \in [Callers -> Operation \cup {Nobody}] /\ HasTarget'
    BY <1>1, <1>2, ContinueFacts DEF StartNext, Awaited
  <1> QED BY <1>3, <1>4, SameStates, Together

-----------------------------------------------------------------------------
(* The hooks settle.                                                       *)

\* A transition that the table allows, of the target of an operation.
LEMMA LegalEnter ==
  ASSUME Inv, NEW m \in Modules, NEW next \in States \ {"installed"},
         Legal(m, next), Enter(m, next),
         live' \in SUBSET Modules, live \ {m} \subseteq live',
         next \in {"running", "degraded"} => m \in live'
  PROVE  /\ state' \in [Modules -> States] /\ RunningIsLive'
         /\ StepKeepsDisabled
  <1>1. state' \in [Modules -> States] /\ RunningIsLive'
    BY EnterFacts
  <1>2. state[m] = "disabled" => next = "disabled"
    BY DisabledIsFinal
  <1> QED BY <1>1, <1>2, EnterKeepsDisabled

\* The states stay and no module stops.
LEMMA StatesStay ==
  ASSUME Inv, UNCHANGED state, live' \in SUBSET Modules, live \subseteq live'
  PROVE  /\ state' \in [Modules -> States] /\ RunningIsLive'
         /\ StepKeepsDisabled
  BY DEF Inv, TypeOK, RunningIsLive, StepKeepsDisabled

\* The catch blocks.
LEMMA FailFacts ==
  ASSUME Inv, NEW p \in Callers, calls[p] # Nobody, calls[p].left # <<>>,
         NEW m \in Modules, Fail(p, m),
         live' \in SUBSET Modules, live \subseteq live'
  PROVE  /\ calls' \in [Callers -> Operation \cup {Nobody}] /\ HasTarget'
         /\ state' \in [Modules -> States] /\ RunningIsLive'
         /\ StepKeepsDisabled
  <1>1. calls' \in [Callers -> Operation \cup {Nobody}] /\ HasTarget'
    BY ProceedFacts, ThrowFacts DEF Fail
  <1>2. CASE Legal(m, "error") /\ Enter(m, "error")
    <2>1. "error" \in States \ {"installed"} /\ live \ {m} \subseteq live'
      BY DEF States
    <2> QED BY <1>1, <1>2, <2>1, LegalEnter
  <1>3. CASE UNCHANGED state
    BY <1>1, <1>3, StatesStay
  <1> QED BY <1>2, <1>3 DEF Fail

\* initialize settles.
LEMMA InitializeSettlesStep ==
  ASSUME Inv, NEW p \in Callers, NEW ok \in BOOLEAN, InitializeSettles(p, ok)
  PROVE  Good
  <1> DEFINE m == Target(p)
  <1>1. calls[p] # Nobody /\ calls[p].left # <<>> /\ m \in Modules
    BY TargetFacts DEF InitializeSettles, At, Awaited
  <1>2. live' = live /\ live' \in SUBSET Modules /\ alone' \in SUBSET Callers
    BY DEF InitializeSettles, Inv, TypeOK
  <1>3. CASE Fail(p, m)
    <2>1. live \subseteq live'
      BY <1>2
    <2> HIDE DEF m
    <2> QED BY <1>1, <1>2, <1>3, <2>1, FailFacts, Together
  <1>4. CASE /\ Legal(m, "ready") /\ Enter(m, "ready")
             /\ IF IsSweep(p) THEN Proceed(p) ELSE Continue(p, "initialized")
    <2>1. calls' \in [Callers -> Operation \cup {Nobody}] /\ HasTarget'
      BY <1>1, <1>4, ProceedFacts, ContinueFacts DEF Awaited
    <2>2. "ready" \in States \ {"installed"} /\ live \ {m} \subseteq live'
      BY <1>2 DEF States
    <2>3. state' \in [Modules -> States] /\ RunningIsLive' /\ StepKeepsDisabled
      <3> HIDE DEF m
      <3> QED BY <1>1, <1>2, <1>4, <2>2, LegalEnter
    <2> QED BY <1>2, <2>1, <2>3, Together
  <1> QED BY <1>3, <1>4 DEF InitializeSettles

\* start settles.
LEMMA StartSettlesStep ==
  ASSUME Inv, NEW p \in Callers, NEW ok \in BOOLEAN, StartSettles(p, ok)
  PROVE  Good
  <1> DEFINE m == Target(p)
  <1>1. calls[p] # Nobody /\ calls[p].left # <<>> /\ m \in Modules
    BY TargetFacts DEF StartSettles, At, Awaited
  <1>2. /\ live' \in SUBSET Modules /\ live \subseteq live'
        /\ alone' \in SUBSET Callers
        /\ (ok => m \in live')
    BY <1>1 DEF StartSettles, Inv, TypeOK
  <1>3. CASE Fail(p, m)
    <2> HIDE DEF m
    <2> QED BY <1>1, <1>2, <1>3, FailFacts, Together
  <1>4. CASE ok /\ Legal(m, "running") /\ Enter(m, "running") /\ Proceed(p)
    <2>1. calls' \in [Callers -> Operation \cup {Nobody}] /\ HasTarget'
      BY <1>1, <1>4, ProceedFacts
    <2>2. "running" \in States \ {"installed"} /\ live \ {m} \subseteq live'
      BY <1>2 DEF States
    <2>3. state' \in [Modules -> States] /\ RunningIsLive' /\ StepKeepsDisabled
      <3> HIDE DEF m
      <3> QED BY <1>1, <1>2, <1>4, <2>2, LegalEnter
    <2> QED BY <1>2, <2>1, <2>3, Together
  <1> QED BY <1>3, <1>4 DEF StartSettles

\* stop settles.  When it fulfils, the module leaves live: the state that it
\* enters, or that refuses it, is neither "running" nor "degraded".
LEMMA StopSettlesStep ==
  ASSUME Inv, NEW p \in Callers, NEW ok \in BOOLEAN, StopSettles(p, ok)
  PROVE  Good
  <1> DEFINE m == Target(p)
  <1>1. /\ calls[p] # Nobody /\ calls[p].left # <<>>
        /\ m \in Modules /\ state[m] \in States
    BY TargetFacts DEF StopSettles, At, Awaited
  <1>2. /\ live' \in SUBSET Modules /\ live \ {m} \subseteq live'
        /\ alone' \in SUBSET Callers
        /\ (~ok => live' = live)
    BY <1>1 DEF StopSettles, Inv, TypeOK
  <1>3. {"disabled", "ready", "error", "loading"} \subseteq States
    BY DEF States
  <1>4. CASE Enter(m, "disabled") /\ Continue(p, "resolved")
    <2>1. calls' \in [Callers -> Operation \cup {Nobody}] /\ HasTarget'
      BY <1>1, <1>4, ContinueFacts DEF Awaited
    <2>2. state' \in [Modules -> States] /\ RunningIsLive' /\ StepKeepsDisabled
      <3> HIDE DEF m
      <3> QED BY <1>1, <1>2, <1>3, <1>4, EnterFacts, EnterKeepsDisabled
    <2> QED BY <1>2, <2>1, <2>2, Together
  <1>5. CASE Legal(m, "ready") /\ Stopped(p, m)
    <2>1. calls' \in [Callers -> Operation \cup {Nobody}] /\ HasTarget'
      BY <1>1, <1>5, ProceedFacts DEF Stopped
    <2>2. state' \in [Modules -> States] /\ RunningIsLive' /\ StepKeepsDisabled
      <3> HIDE DEF m
      <3> QED BY <1>1, <1>2, <1>3, <1>5, LegalEnter DEF Stopped
    <2> QED BY <1>2, <2>1, <2>2, Together
  <1>6. CASE ~(ok /\ Legal(m, "ready")) /\ StopFailed(p, m)
    <2>1. calls' \in [Callers -> Operation \cup {Nobody}] /\ HasTarget'
      BY <1>1, <1>6, ThrowFacts, ContinueFacts DEF StopFailed, Awaited
    <2>2. CASE Legal(m, "error") /\ Enter(m, "error")
      <3>1. state' \in [Modules -> States] /\ RunningIsLive' /\ StepKeepsDisabled
        <4> HIDE DEF m
        <4> QED BY <1>1, <1>2, <1>3, <2>2, LegalEnter
      <3> QED BY <1>2, <2>1, <3>1, Together
    <2>3. CASE Legal(m, "error") /\ Enter(m, "loading")
      <3>1. state[m] # "disabled"
        BY <1>1, <2>3, DisabledIsFinal
      <3>2. state' \in [Modules -> States] /\ RunningIsLive' /\ StepKeepsDisabled
        <4> HIDE DEF m
        <4> QED BY <1>1, <1>2, <1>3, <2>3, <3>1, EnterFacts, EnterKeepsDisabled
      <3> QED BY <1>2, <2>1, <3>2, Together
    <2>4. CASE UNCHANGED state /\ ~Legal(m, "error")
      <3>1. state[m] \notin {"running", "degraded"}
        BY <2>4 DEF Legal, Allowed
      <3>2. RunningIsLive'
        BY <1>2, <2>4, <3>1 DEF RunningIsLive, Inv
      <3>3. state' \in [Modules -> States] /\ StepKeepsDisabled
        BY <2>4 DEF Inv, TypeOK, StepKeepsDisabled
      <3> QED BY <1>2, <2>1, <3>2, <3>3, Together
    <2> QED BY <1>6, <2>2, <2>3, <2>4 DEF StopFailed
  <1> QED BY <1>4, <1>5, <1>6 DEF StopSettles

\* health answers.
LEMMA HealthAnswersStep ==
  ASSUME Inv, NEW p \in Callers, NEW status, HealthAnswers(p, status)
  PROVE  Good
  <1> DEFINE m == Target(p)
             next == Reported(m, status)
  <1>1. /\ calls[p] # Nobody /\ calls[p].left # <<>>
        /\ m \in Modules /\ state[m] \in States
    BY TargetFacts DEF HealthAnswers, At, Awaited
  <1>2. live' = live /\ live' \in SUBSET Modules /\ alone' \in SUBSET Callers
    BY DEF HealthAnswers, Inv, TypeOK
  <1>3. calls' \in [Callers -> Operation \cup {Nobody}] /\ HasTarget'
    BY <1>1, ProceedFacts DEF HealthAnswers
  <1>4. /\ next \in States
        /\ state[m] = "disabled" => next = "disabled"
        /\ next \in {"running", "degraded"} => m \in live'
    BY <1>1, <1>2 DEF Reported, States, Inv, RunningIsLive
  <1>5. Enter(m, next) /\ live \ {m} \subseteq live'
    BY <1>2 DEF HealthAnswers
  <1>6. state' \in [Modules -> States] /\ RunningIsLive' /\ StepKeepsDisabled
    <2> HIDE DEF m, next
    <2> QED BY <1>1, <1>2, <1>4, <1>5, EnterFacts, EnterKeepsDisabled
  <1> QED BY <1>2, <1>3, <1>6, Together

\* health throws.
LEMMA HealthThrowsStep ==
  ASSUME Inv, NEW p \in Callers, HealthThrows(p)
  PROVE  Good
  <1> DEFINE m == Target(p)
  <1>1. /\ calls[p] # Nobody /\ calls[p].left # <<>>
        /\ m \in Modules /\ state[m] \in States
    BY TargetFacts DEF HealthThrows, At, Awaited
  <1>2. live' = live /\ live' \in SUBSET Modules /\ alone' \in SUBSET Callers
    BY DEF HealthThrows, Inv, TypeOK
  <1>3. live \ {m} \subseteq live' /\ {"degraded", "error"} \subseteq States
    BY <1>2 DEF States
  <1>4. CASE state[m] \in {"running", "degraded"}
    <2>1. Enter(m, "degraded") /\ Proceed(p)
      BY <1>4 DEF HealthThrows
    <2>2. m \in live'
      BY <1>1, <1>2, <1>4 DEF Inv, RunningIsLive
    <2>3. state' \in [Modules -> States] /\ RunningIsLive' /\ StepKeepsDisabled
      <3> HIDE DEF m
      <3> QED BY <1>1, <1>2, <1>3, <1>4, <2>1, <2>2, EnterFacts, EnterKeepsDisabled
    <2> QED BY <1>1, <1>2, <2>1, <2>3, ProceedFacts, Together
  <1>5. CASE state[m] = "disabled"
    <2>1. UNCHANGED state /\ Proceed(p)
      BY <1>5 DEF HealthThrows
    <2> QED BY <1>1, <1>2, <2>1, ProceedFacts, SameStates, Together
  <1>6. CASE state[m] \in {"loading", "ready", "error"}
    <2>1. Enter(m, "error") /\ Proceed(p)
      BY <1>6 DEF HealthThrows
    <2>2. state' \in [Modules -> States] /\ RunningIsLive' /\ StepKeepsDisabled
      <3> HIDE DEF m
      <3> QED BY <1>1, <1>2, <1>3, <1>6, <2>1, EnterFacts, EnterKeepsDisabled
    <2> QED BY <1>1, <1>2, <2>1, <2>2, ProceedFacts, Together
  <1>7. CASE state[m] = "installed"
    <2>1. UNCHANGED state /\ (Proceed(p) \/ Continue(p, "rejected"))
      BY <1>7 DEF HealthThrows
    <2>2. calls' \in [Callers -> Operation \cup {Nobody}] /\ HasTarget'
      BY <1>1, <2>1, ProceedFacts, ContinueFacts DEF Awaited
    <2> QED BY <1>2, <2>1, <2>2, SameStates, Together
  <1> QED BY <1>1, <1>4, <1>5, <1>6, <1>7 DEF States

-----------------------------------------------------------------------------
(* The theorems.                                                           *)

\* The invariant holds at the start.
LEMMA InitInv == Init => Inv
  BY DEF Init, Inv, TypeOK, RunningIsLive, HasTarget, States

\* A step keeps the invariant, and what is disabled disabled.
LEMMA StepGood ==
  ASSUME Inv, [Next]_vars
  PROVE  Good
  <1>1. CASE Next
    <2>1. PICK p \in Callers :
            \/ \E operation \in Operations : Begin(p, operation)
            \/ SweepNext(p) \/ Restart(p) \/ Enable(p) \/ Disable(p) \/ Health(p)
            \/ StartNext(p)
            \/ \E ok \in BOOLEAN : \/ InitializeSettles(p, ok)
                                   \/ StartSettles(p, ok) \/ StopSettles(p, ok)
            \/ \E status \in {"healthy", "degraded", "error"} :
                 HealthAnswers(p, status)
            \/ HealthThrows(p)
            \/ Return(p)
      BY <1>1 DEF Next
    <2> QED BY <2>1, BeginStep, SweepNextStep, RestartStep, EnableStep,
               DisableStep, HealthStep, StartNextStep, InitializeSettlesStep,
               StartSettlesStep, StopSettlesStep, HealthAnswersStep, HealthThrowsStep, ReturnStep
  <1>2. CASE UNCHANGED vars
    BY <1>2 DEF vars, Good, Inv, TypeOK, RunningIsLive, HasTarget,
                StepKeepsDisabled
  <1> QED BY <1>1, <1>2

\* The invariant of every behaviour.
THEOREM LifecycleInvariance == Spec => []Inv
  <1>1. Inv /\ [Next]_vars => Inv'
    BY StepGood DEF Good
  <1> QED BY InitInv, <1>1, PTL DEF Spec

\* Every variable keeps its type, for any modules in any order.
THEOREM LifecycleTypeCorrect == Spec => []TypeOK
  <1>1. Inv => TypeOK
    BY DEF Inv
  <1> QED BY LifecycleInvariance, <1>1, PTL

\* What is reported as running has been started and not been stopped since.
THEOREM RunningIsLiveHolds == Spec => []RunningIsLive
  <1>1. Inv => RunningIsLive
    BY DEF Inv
  <1> QED BY LifecycleInvariance, <1>1, PTL

\* A disabled module stays disabled until it is enabled.
THEOREM DisabledUntilEnabledHolds == Spec => DisabledUntilEnabled
  <1>1. Inv /\ [Next]_vars => [StepKeepsDisabled]_vars
    BY StepGood DEF Good
  <1>2. Spec => [][StepKeepsDisabled]_vars
    BY LifecycleInvariance, <1>1, PTL DEF Spec
  <1> QED BY <1>2 DEF DisabledUntilEnabled, StepKeepsDisabled

-----------------------------------------------------------------------------
(* Sweeps.                                                                 *)

\* The hooks an operation may wait for.
Hooks(op) ==
  CASE op = "initializeAll" -> {"initialize"}
    [] op = "startAll" -> {"start"}
    [] op = "stopAll" -> {"stop"}
    [] op \in {"health", "healthAll"} -> {"health"}
    [] op = "disable" -> {"stop"}
    [] op \in {"restart", "enable"} -> Awaited \ {"health"}

HookFits ==
  \A p \in Callers :
    calls[p] # Nobody =>
      calls[p].pc \in Hooks(calls[p].op) \cup {"next", "resolved", "rejected"}

\* A module is loading only while an operation initializes it.
LoadingHasCall ==
  \A m \in Modules : state[m] = "loading" =>
    \E p \in Callers : At(p, "initialize") /\ Target(p) = m

\* The hooks but health are called for modules that were initialized, or are
\* about to be, and no module is forgotten again.
TargetsKnown ==
  \A p \in Callers :
    calls[p] # Nobody /\ calls[p].pc \in Awaited \ {"health"} =>
      state[Target(p)] # "installed"

InstalledIdle ==
  \A m \in Modules : state[m] = "installed" => m \notin live

\* Nobody but health checks is with an operation that is alone.
Sole ==
  \A p \in alone :
    /\ calls[p] # Nobody /\ ~IsHealth(calls[p])
    /\ \A q \in Callers \ {p} : calls[q] # Nobody => IsHealth(calls[q])

\* Nobody disables the module that a sweep is at.
NotDisabled ==
  \A p \in alone :
    IsSweep(p) /\ calls[p].pc \in Awaited => state[Target(p)] # "disabled"

\* What a sweep promises of a module it has passed.
Done(op, m) ==
  CASE op = "initializeAll" -> state[m] \notin {"installed", "loading"}
    [] op = "startAll" -> state[m] # "ready"
    [] op = "stopAll" -> m \in live => state[m] \in {"error", "disabled"}
    [] OTHER -> TRUE

\* The sweep has not passed m.
Ahead(p, m) ==
  /\ calls[p].pc \notin {"resolved", "rejected"}
  /\ \E j \in DOMAIN calls[p].left : calls[p].left[j] = m

SweepInv ==
  \A p \in alone : IsSweep(p) =>
    \A i \in DOMAIN Order : Done(calls[p].op, Order[i]) \/ Ahead(p, Order[i])

Fatal(p) ==
  /\ calls[p].op \in {"initializeAll", "startAll"}
  /\ calls[p].fatal \/ calls[p].pc = "rejected"

RequiredInError == \E m \in Modules \ Optional : state[m] = "error"

FatalIsError == \A p \in alone : Fatal(p) => RequiredInError

SweepsInv ==
  /\ Inv
  /\ HookFits /\ LoadingHasCall /\ TargetsKnown /\ InstalledIdle
  /\ Sole /\ NotDisabled /\ SweepInv /\ FatalIsError

\* The parts of it that every action but Begin and Return keeps because of
\* what it does for its caller p.
HealthOnly ==
  /\ live' = live
  /\ \A m \in Modules :
       \/ state'[m] = state[m]
       \/ state[m] \in {"loading", "ready", "error"} /\ state'[m] = "error"
       \/ {state[m], state'[m]} \subseteq {"running", "degraded"}

Loads(p) ==
  \A m \in Modules : state'[m] = "loading" =>
    \/ (At(p, "initialize") /\ Target(p) = m)'
    \/ state[m] = "loading" /\ ~(At(p, "initialize") /\ Target(p) = m)

Starts(p) == \A m \in live' \ live : At(p, "start") /\ Target(p) = m

Sweeping(p) ==
  /\ calls'[p].pc \in Awaited => state'[Target(p)'] # "disabled"
  /\ \A m \in Modules :
       Done(calls[p].op, m) \/ Ahead(p, m) =>
         Done(calls[p].op, m)' \/ Ahead(p, m)'
  /\ Fatal(p)' => RequiredInError'

Moves(p) ==
  /\ calls[p] # Nobody /\ calls'[p] # Nobody /\ calls'[p].op = calls[p].op
  /\ \A q \in Callers \ {p} : calls'[q] = calls[q]
  /\ alone' = alone
  /\ calls'[p].pc \in Hooks(calls[p].op) \cup {"next", "resolved", "rejected"}
  /\ \A m \in Modules : state'[m] = "installed" => state[m] = "installed"
  /\ calls'[p].pc \in Awaited \ {"health"} => state'[Target(p)'] # "installed"
  /\ Loads(p) /\ Starts(p)
  /\ IsHealth(calls[p]) => HealthOnly
  /\ p \in alone /\ IsSweep(p) => Sweeping(p)

\* What a health check does to a module undoes nothing of a sweep.
LEMMA HealthKeepsDone ==
  ASSUME Inv, HealthOnly, NEW m \in Modules, NEW op, Done(op, m)
  PROVE  (state'[m] # "disabled" \/ state[m] = "disabled")
         /\ (CASE op = "initializeAll" -> state'[m] \notin {"installed", "loading"}
               [] op = "startAll" -> state'[m] # "ready"
               [] op = "stopAll" -> m \in live' => state'[m] \in {"error", "disabled"}
               [] OTHER -> TRUE)
  BY DEF HealthOnly, Done

\* An action that moves keeps the invariant.
LEMMA MovesKeep ==
  ASSUME SweepsInv, Inv', NEW p \in Callers, Moves(p)
  PROVE  SweepsInv'
  <1>1. HookFits'
    BY DEF SweepsInv, HookFits, Moves
  <1>2. LoadingHasCall'
    <2> SUFFICES ASSUME NEW m \in Modules, state'[m] = "loading"
                 PROVE  \E q \in Callers : (At(q, "initialize") /\ Target(q) = m)'
      BY DEF LoadingHasCall
    <2>1. CASE (At(p, "initialize") /\ Target(p) = m)'
      BY <2>1
    <2>2. CASE state[m] = "loading" /\ ~(At(p, "initialize") /\ Target(p) = m)
      <3>1. PICK q \in Callers : At(q, "initialize") /\ Target(q) = m
        BY <2>2 DEF SweepsInv, LoadingHasCall
      <3>2. calls'[q] = calls[q]
        BY <2>2, <3>1 DEF Moves
      <3> QED BY <3>1, <3>2 DEF At, Target
    <2> QED BY <2>1, <2>2 DEF Moves, Loads
  <1>3. TargetsKnown'
    <2> SUFFICES ASSUME NEW q \in Callers, calls'[q] # Nobody,
                        calls'[q].pc \in Awaited \ {"health"}
                 PROVE  state'[Target(q)'] # "installed"
      BY DEF TargetsKnown
    <2>1. CASE q = p
      BY <2>1 DEF Moves
    <2>2. CASE q # p
      <3>1. calls'[q] = calls[q]
        BY <2>2 DEF Moves
      <3>2. Target(q)' = Target(q) /\ state[Target(q)] # "installed"
        BY <3>1 DEF Target, SweepsInv, TargetsKnown
      <3>3. calls[q].left # <<>>
        BY <3>1 DEF SweepsInv, Inv, HasTarget
      <3>4. Target(q) \in Modules
        BY <3>1, <3>3, OperationFacts DEF SweepsInv, Inv
      <3> QED BY <3>2, <3>4 DEF Moves
    <2> QED BY <2>1, <2>2
  <1>4. InstalledIdle'
    <2> SUFFICES ASSUME NEW m \in Modules, state'[m] = "installed", m \in live'
                 PROVE  FALSE
      BY DEF InstalledIdle
    <2>1. state[m] = "installed" /\ m \notin live
      BY DEF Moves, SweepsInv, InstalledIdle
    <2>2. At(p, "start") /\ Target(p) = m
      BY <2>1 DEF Moves, Starts
    <2> QED BY <2>1, <2>2 DEF SweepsInv, TargetsKnown, At, Awaited
  <1>5. Sole'
    <2>1. \A q \in Callers :
            (calls'[q] # Nobody <=> calls[q] # Nobody)
            /\ (calls'[q] # Nobody => calls'[q].op = calls[q].op)
      BY DEF Moves
    <2>2. alone' = alone /\ alone \subseteq Callers
      BY DEF Moves, SweepsInv, Inv, TypeOK
    <2> QED BY <2>1, <2>2 DEF SweepsInv, Sole, IsHealth
  <1>6. ASSUME NEW q \in alone, q # p, q \in Callers, IsSweep(q)
        PROVE  /\ calls'[q] = calls[q] /\ HealthOnly
               /\ \A m \in Modules : Done(calls[q].op, m) => Done(calls[q].op, m)'
    <2>1. IsHealth(calls[p]) /\ calls'[q] = calls[q]
      BY <1>6 DEF SweepsInv, Sole, Moves
    <2>2. HealthOnly
      BY <2>1 DEF Moves
    <2>3. ASSUME NEW m \in Modules, Done(calls[q].op, m)
          PROVE  Done(calls[q].op, m)'
      BY <2>1, <2>2, <2>3, HealthKeepsDone DEF SweepsInv, Done
    <2> QED BY <2>1, <2>2, <2>3
  <1>7. alone \subseteq Callers /\ alone' = alone
    BY DEF SweepsInv, Inv, TypeOK, Moves
  <1>8. NotDisabled'
    <2> SUFFICES ASSUME NEW q \in alone, IsSweep(q)', calls'[q].pc \in Awaited
                 PROVE  state'[Target(q)'] # "disabled"
      BY <1>7 DEF NotDisabled
    <2>1. CASE q = p
      BY <2>1 DEF Moves, Sweeping, IsSweep
    <2>2. CASE q # p
      <3>1. calls'[q] = calls[q] /\ HealthOnly /\ IsSweep(q)
        BY <1>6, <1>7, <2>2 DEF Moves, IsSweep
      <3>2. Target(q)' = Target(q) /\ state[Target(q)] # "disabled"
        BY <3>1 DEF Target, SweepsInv, NotDisabled
      <3>3. calls[q] # Nobody /\ calls[q].left # <<>>
        BY <1>7, <3>1 DEF SweepsInv, Inv, HasTarget, Sole
      <3>4. Target(q) \in Modules
        BY <1>7, <3>3, OperationFacts DEF SweepsInv, Inv
      <3> QED BY <3>1, <3>2, <3>4 DEF HealthOnly
    <2> QED BY <2>1, <2>2
  <1>9. SweepInv'
    <2> SUFFICES ASSUME NEW q \in alone, IsSweep(q)', NEW i \in DOMAIN Order
                 PROVE  (Done(calls[q].op, Order[i]) \/ Ahead(q, Order[i]))'
      BY <1>7 DEF SweepInv
    <2>1. Order[i] \in Modules
      BY ModulesAssumption
    <2>2. IsSweep(q)
      <3>1. CASE q = p
        BY <3>1 DEF Moves, IsSweep
      <3>2. CASE q # p
        BY <1>7, <3>2 DEF Moves, IsSweep
      <3> QED BY <3>1, <3>2
    <2>3. Done(calls[q].op, Order[i]) \/ Ahead(q, Order[i])
      BY <2>2 DEF SweepsInv, SweepInv
    <2>4. CASE q = p
      BY <2>1, <2>2, <2>3, <2>4 DEF Moves, Sweeping
    <2>5. CASE q # p
      <3>1. /\ calls'[q] = calls[q]
            /\ Done(calls[q].op, Order[i]) => Done(calls[q].op, Order[i])'
        BY <1>6, <1>7, <2>1, <2>2, <2>5
      <3> QED BY <2>3, <3>1 DEF Ahead
    <2> QED BY <2>4, <2>5
  <1>10. FatalIsError'
    <2> SUFFICES ASSUME NEW q \in alone, Fatal(q)'
                 PROVE  RequiredInError'
      BY <1>7 DEF FatalIsError
    <2>1. CASE q = p
      <3>1. IsSweep(p)
        BY <2>1 DEF Moves, Fatal, IsSweep, Sweeps
      <3> QED BY <2>1, <3>1 DEF Moves, Sweeping
    <2>2. CASE q # p
      <3>1. calls'[q] = calls[q]
        BY <1>7, <2>2 DEF Moves
      <3>2. Fatal(q) /\ IsSweep(q)
        BY <3>1 DEF Fatal, IsSweep, Sweeps
      <3>3. HealthOnly /\ RequiredInError
        BY <1>6, <1>7, <2>2, <3>2 DEF SweepsInv, FatalIsError
      <3> QED BY <3>3 DEF HealthOnly, RequiredInError
    <2> QED BY <2>1, <2>2
  <1> QED BY <1>1, <1>2, <1>3, <1>4, <1>5, <1>8, <1>9, <1>10 DEF SweepsInv

\* A sequence without its first element, or from one of its elements on.
LEMMA TailKeeps ==
  ASSUME NEW s \in Seq(Modules), s # <<>>, NEW m, m # Head(s),
         \E j \in DOMAIN s : s[j] = m
  PROVE  \E j \in DOMAIN Tail(s) : Tail(s)[j] = m
  <1>1. PICK j \in DOMAIN s : s[j] = m
    OBVIOUS
  <1>2. /\ Len(s) \in Nat /\ DOMAIN s = 1..Len(s) /\ j \in 1..Len(s) /\ j # 1
        /\ DOMAIN Tail(s) = 1..(Len(s) - 1)
    BY <1>1
  <1>3. j - 1 \in DOMAIN Tail(s) /\ Tail(s)[j - 1] = s[j]
    BY <1>2
  <1> QED BY <1>1, <1>3

LEMMA RestFacts ==
  ASSUME NEW s \in Seq(Modules), NEW i \in DOMAIN s
  PROVE  /\ SubSeq(s, i, Len(s)) \in Seq(Modules)
         /\ SubSeq(s, i, Len(s)) # <<>>
         /\ Head(SubSeq(s, i, Len(s))) = s[i]
         /\ \A j \in DOMAIN s : j < i \/
              \E k \in DOMAIN SubSeq(s, i, Len(s)) :
                SubSeq(s, i, Len(s))[k] = s[j]
  <1> DEFINE rest == SubSeq(s, i, Len(s))
  <1>1. /\ Len(s) \in Nat /\ DOMAIN s = 1..Len(s) /\ i \in 1..Len(s)
        /\ \A j \in 1..Len(s) : s[j] \in Modules
    OBVIOUS
  <1>2. /\ rest \in Seq(Modules) /\ Len(rest) = Len(s) - i + 1
        /\ \A k \in 1..(Len(s) - i + 1) : rest[k] = s[i + k - 1]
    BY <1>1, SubSeqProperties
  <1>3. DOMAIN rest = 1..(Len(s) - i + 1) /\ rest # <<>>
    <2> HIDE DEF rest
    <2> QED BY <1>1, <1>2
  <1>4. Head(rest) = s[i]
    <2>1. rest[1] = s[i]
      BY <1>1, <1>2
    <2> HIDE DEF rest
    <2> QED BY <1>2, <1>3, <2>1
  <1>5. ASSUME NEW j \in DOMAIN s, ~(j < i)
        PROVE  \E k \in DOMAIN rest : rest[k] = s[j]
    <2>1. j - i + 1 \in 1..(Len(s) - i + 1) /\ i + (j - i + 1) - 1 = j
      BY <1>1, <1>5
    <2>2. rest[j - i + 1] = s[j]
      BY <1>2, <2>1
    <2> HIDE DEF rest
    <2> QED BY <1>3, <2>1, <2>2
  <1> HIDE DEF rest
  <1> QED BY <1>2, <1>3, <1>4, <1>5 DEF rest

\* What waiting, proceeding and throwing do to the operation of the caller.
LEMMA ContinueMoves ==
  ASSUME Inv, NEW p \in Callers, calls[p] # Nobody, NEW pc, Continue(p, pc)
  PROVE  /\ calls'[p] = [calls[p] EXCEPT !.pc = pc]
         /\ \A q \in Callers \ {p} : calls'[q] = calls[q]
         /\ calls'[p] # Nobody => /\ calls'[p].op = calls[p].op /\ calls'[p].pc = pc
                                  /\ calls'[p].fatal = calls[p].fatal
                                  /\ calls'[p].left = calls[p].left
                                  /\ Target(p)' = Target(p)
  <1>1. calls[p] \in Operation /\ calls \in [Callers -> Operation \cup {Nobody}]
    BY OperationFacts DEF Inv, TypeOK
  <1>2. calls'[p] = [calls[p] EXCEPT !.pc = pc]
    BY <1>1 DEF Continue
  <1>3. \A q \in Callers \ {p} : calls'[q] = calls[q]
    BY <1>1 DEF Continue
  <1>4. /\ calls'[p].op = calls[p].op /\ calls'[p].pc = pc
        /\ calls'[p].fatal = calls[p].fatal /\ calls'[p].left = calls[p].left
    BY <1>1, <1>2 DEF Operation
  <1> QED BY <1>2, <1>3, <1>4 DEF Target

Shape(p) ==
  /\ calls[p] # Nobody /\ calls'[p] # Nobody /\ calls'[p].op = calls[p].op
  /\ \A q \in Callers \ {p} : calls'[q] = calls[q]

LEMMA ContinueShape ==
  ASSUME Inv, NEW p \in Callers, calls[p] # Nobody,
         NEW pc \in Awaited \cup {"next", "resolved", "rejected"},
         Continue(p, pc)
  PROVE  /\ Shape(p)
         /\ calls'[p].pc = pc /\ calls'[p].left = calls[p].left
         /\ calls'[p].fatal = calls[p].fatal /\ Target(p)' = Target(p)
  <1>1. calls[p] \in Operation
    BY OperationFacts DEF Inv
  <1>2. calls'[p] = [calls[p] EXCEPT !.pc = pc]
    BY ContinueMoves
  <1>3. calls'[p] \in Operation
    BY <1>1, <1>2 DEF Operation
  <1>4. calls'[p] # Nobody
    BY <1>3, NobodyAssumption
  <1> QED BY <1>4, ContinueMoves DEF Shape

\* Dropping the head leaves what is behind it.
Drops(p) ==
  /\ Shape(p)
  /\ IF IsSweep(p)
     THEN calls'[p].pc = "next" /\ calls'[p].left = Tail(calls[p].left)
     ELSE calls'[p].pc \in {"resolved", "rejected"}

LEMMA DropShape ==
  ASSUME Inv, NEW p \in Callers, calls[p] # Nobody, calls[p].left # <<>>,
         NEW call, IsSweep(p), calls' = [calls EXCEPT ![p] = call],
         \/ call = [calls[p] EXCEPT !.left = Tail(@), !.pc = "next"]
         \/ call = [calls[p] EXCEPT !.left = Tail(@), !.pc = "next",
                                   !.fatal = TRUE]
  PROVE  /\ Drops(p)
         /\ call = [calls[p] EXCEPT !.left = Tail(@), !.pc = "next"] =>
              calls'[p].fatal = calls[p].fatal
  <1>1. /\ calls[p] \in Operation /\ calls[p].left \in Seq(Modules)
        /\ calls \in [Callers -> Operation \cup {Nobody}]
    BY OperationFacts DEF Inv, TypeOK
  <1>2. calls'[p] = call /\ \A q \in Callers \ {p} : calls'[q] = calls[q]
    BY <1>1
  <1>3. Tail(calls[p].left) \in Seq(Modules)
    BY <1>1
  <1>4. call \in Operation /\ call.pc = "next" /\ call.op = calls[p].op
        /\ call.left = Tail(calls[p].left)
    BY <1>1, <1>3 DEF Operation
  <1>5. call # Nobody
    BY <1>4, NobodyAssumption
  <1>6. call = [calls[p] EXCEPT !.left = Tail(@), !.pc = "next"] =>
          call.fatal = calls[p].fatal
    BY <1>1 DEF Operation
  <1> QED BY <1>2, <1>4, <1>5, <1>6 DEF Drops, Shape

LEMMA ProceedShape ==
  ASSUME Inv, NEW p \in Callers, calls[p] # Nobody, calls[p].left # <<>>,
         Proceed(p)
  PROVE  Drops(p) /\ calls'[p].fatal = calls[p].fatal
         /\ calls'[p].pc \in {"next", "resolved"}
  <1>1. CASE IsSweep(p)
    <2> DEFINE call == [calls[p] EXCEPT !.left = Tail(@), !.pc = "next"]
    <2>1. calls' = [calls EXCEPT ![p] = call]
      BY <1>1 DEF Proceed
    <2>2. Drops(p) /\ calls'[p].fatal = calls[p].fatal
      BY <1>1, <2>1, DropShape
    <2> QED BY <1>1, <2>2 DEF Drops
  <1>2. CASE ~IsSweep(p)
    BY <1>2, ContinueShape DEF Proceed, Drops
  <1> QED BY <1>1, <1>2

LEMMA ThrowShape ==
  ASSUME Inv, NEW p \in Callers, calls[p] # Nobody, calls[p].left # <<>>,
         Throw(p)
  PROVE  Drops(p)
  <1>1. CASE IsSweep(p)
    <2> DEFINE call == [calls[p] EXCEPT !.left = Tail(@), !.pc = "next",
                                        !.fatal = TRUE]
    <2>1. calls' = [calls EXCEPT ![p] = call]
      BY <1>1 DEF Throw
    <2> QED BY <1>1, <2>1, DropShape
  <1>2. CASE ~IsSweep(p)
    BY <1>2, ContinueShape DEF Throw, Drops
  <1> QED BY <1>1, <1>2

\* A sweep that is done with its head.
LEMMA PassHead ==
  ASSUME SweepsInv, NEW p \in Callers, calls[p].left # <<>>, Drops(p), IsSweep(p),
         NEW h \in Modules, h = Target(p),
         \A m \in Modules \ {h} :
           state'[m] = state[m] /\ (m \in live' <=> m \in live),
         Done(calls[p].op, h)',
         Fatal(p)' => RequiredInError'
  PROVE  Sweeping(p)
  <1>1. calls'[p].pc = "next" /\ calls'[p].left = Tail(calls[p].left)
        /\ calls[p] # Nobody /\ calls'[p].op = calls[p].op
    BY DEF Drops, Shape
  <1>2. calls[p].left \in Seq(Modules)
    BY <1>1, OperationFacts DEF SweepsInv, Inv
  <1>3. ASSUME NEW m \in Modules, Done(calls[p].op, m) \/ Ahead(p, m)
        PROVE  Done(calls[p].op, m)' \/ Ahead(p, m)'
    <2>1. CASE m = h
      BY <2>1
    <2>2. CASE m # h /\ Done(calls[p].op, m)
      BY <1>1, <2>2 DEF Done
    <2>3. CASE m # h /\ Ahead(p, m)
      <3>1. \E j \in DOMAIN Tail(calls[p].left) : Tail(calls[p].left)[j] = m
        BY <1>2, <2>3, TailKeeps DEF Ahead, Target
      <3> QED BY <1>1, <3>1 DEF Ahead
    <2> QED BY <1>3, <2>1, <2>2, <2>3
  <1>4. calls'[p].pc \notin Awaited
    BY <1>1 DEF Awaited
  <1> QED BY <1>3, <1>4 DEF Sweeping

\* Actions that leave everything but their operation alone.
LEMMA StillMoves ==
  ASSUME SweepsInv, NEW p \in Callers, calls[p] # Nobody, ~IsSweep(p),
         ~At(p, "initialize"), UNCHANGED <<state, live, alone>>,
         NEW pc \in Hooks(calls[p].op) \cup {"next", "resolved", "rejected"},
         pc \in Awaited \cup {"next", "resolved", "rejected"}, Continue(p, pc),
         pc \in Awaited \ {"health"} => state[Target(p)] # "installed"
  PROVE  Moves(p)
  <1>1. /\ Shape(p) /\ calls'[p].pc = pc /\ Target(p)' = Target(p)
    BY ContinueShape DEF SweepsInv
  <1>2. Loads(p) /\ Starts(p) /\ HealthOnly
    BY DEF Loads, Starts, HealthOnly
  <1> QED BY <1>1, <1>2 DEF Moves, Shape

LEMMA HealthMoves ==
  ASSUME SweepsInv, NEW p \in Callers, Health(p)
  PROVE  Moves(p)
  <1>1. calls[p] # Nobody /\ calls[p].op = "health" /\ calls[p].pc = "next"
    BY DEF Health, At
  <1>2. ~IsSweep(p) /\ ~At(p, "initialize")
        /\ "health" \in Hooks(calls[p].op) /\ "health" \in Awaited
    BY <1>1 DEF IsSweep, Sweeps, At, Hooks, Awaited
  <1> QED BY <1>1, <1>2, StillMoves DEF Health

LEMMA StartNextMoves ==
  ASSUME SweepsInv, NEW p \in Callers, StartNext(p)
  PROVE  Moves(p)
  <1>1. calls[p] # Nobody /\ calls[p].pc = "initialized"
        /\ calls[p].op \in Sweeps \cup Singles
    BY OperationFacts DEF StartNext, At, SweepsInv, Inv
  <1>2. calls[p].op \in {"restart", "enable"}
    BY <1>1 DEF SweepsInv, HookFits, Hooks, Sweeps, Singles
  <1>3. ~IsSweep(p) /\ ~At(p, "initialize")
        /\ "start" \in Hooks(calls[p].op) /\ "start" \in Awaited
    BY <1>1, <1>2 DEF IsSweep, Sweeps, At, Hooks, Awaited
  <1>4. CASE state[Target(p)] = "ready"
    BY <1>1, <1>3, <1>4, StillMoves DEF StartNext
  <1>5. CASE state[Target(p)] # "ready"
    BY <1>1, <1>3, <1>5, StillMoves DEF StartNext, Awaited
  <1> QED BY <1>4, <1>5

\* An operation on one module that moves its module.
LEMMA SingleMoves ==
  ASSUME SweepsInv, NEW p \in Callers, calls[p] # Nobody, ~IsSweep(p),
         ~At(p, "initialize"), NEW m \in Modules, m = Target(p),
         NEW next \in {"loading", "disabled"}, Enter(m, next),
         UNCHANGED <<live, alone>>, ~IsHealth(calls[p]),
         NEW pc \in {"initialize", "resolved"},
         pc = "initialize" <=> next = "loading",
         pc \in Hooks(calls[p].op) \cup {"resolved"}, Continue(p, pc)
  PROVE  Moves(p)
  <1>1. /\ Shape(p) /\ calls'[p].pc = pc /\ Target(p)' = Target(p)
    BY ContinueShape DEF SweepsInv, Awaited
  <1>2. state' = [state EXCEPT ![m] = next] /\ state \in [Modules -> States]
    BY DEF Enter, SweepsInv, Inv, TypeOK
  <1>3. \A k \in Modules : state'[k] = IF k = m THEN next ELSE state[k]
    BY <1>2
  <1>4. Loads(p)
    BY <1>1, <1>3 DEF Loads, At, Shape
  <1>5. Starts(p)
    BY DEF Starts
  <1> QED BY <1>1, <1>3, <1>4, <1>5 DEF Moves, Shape

LEMMA RestartMoves ==
  ASSUME SweepsInv, NEW p \in Callers, Restart(p)
  PROVE  Moves(p)
  <1> DEFINE m == Target(p)
  <1>1. calls[p] # Nobody /\ calls[p].op = "restart" /\ calls[p].pc = "next"
    BY DEF Restart, At
  <1>2. ~IsSweep(p) /\ ~At(p, "initialize") /\ ~IsHealth(calls[p])
        /\ {"stop", "initialize"} \subseteq Hooks(calls[p].op)
        /\ {"stop", "initialize"} \subseteq Awaited
    BY <1>1 DEF IsSweep, Sweeps, At, Hooks, Awaited, IsHealth
  <1>3. m \in Modules /\ state[m] \in States
    BY <1>1, TargetFacts DEF SweepsInv, Singles
  <1>4. CASE UNCHANGED state /\ \E pc \in {"rejected", "resolved"} : Continue(p, pc)
    BY <1>1, <1>2, <1>4, StillMoves DEF Restart, Awaited
  <1>5. CASE UNCHANGED state /\ Continue(p, "stop") /\ state[m] # "installed"
    BY <1>1, <1>2, <1>5, StillMoves DEF Restart, Awaited
  <1>6. CASE Continue(p, "initialize") /\ Enter(m, "loading")
    <2> HIDE DEF m
    <2> QED BY <1>1, <1>2, <1>3, <1>6, SingleMoves DEF Restart, m
  <1>7. \/ state[m] = "disabled" \/ state[m] \in {"running", "degraded"}
        \/ state[m] \in {"error", "installed"} \/ state[m] \in {"ready", "loading"}
    BY <1>3 DEF States
  <1> QED BY <1>4, <1>5, <1>6, <1>7 DEF Restart

LEMMA EnableMoves ==
  ASSUME SweepsInv, NEW p \in Callers, Enable(p)
  PROVE  Moves(p)
  <1> DEFINE m == Target(p)
  <1>1. calls[p] # Nobody /\ calls[p].op = "enable" /\ calls[p].pc = "next"
    BY DEF Enable, At
  <1>2. ~IsSweep(p) /\ ~At(p, "initialize") /\ ~IsHealth(calls[p])
        /\ "initialize" \in Hooks(calls[p].op)
    BY <1>1 DEF IsSweep, Sweeps, At, Hooks, Awaited, IsHealth
  <1>3. m \in Modules
    BY <1>1, TargetFacts DEF SweepsInv, Singles
  <1>4. CASE UNCHANGED state /\ Continue(p, "rejected")
    BY <1>1, <1>2, <1>4, StillMoves DEF Enable, Awaited
  <1>5. CASE Continue(p, "initialize") /\ Enter(m, "loading")
    <2> HIDE DEF m
    <2> QED BY <1>1, <1>2, <1>3, <1>5, SingleMoves DEF Enable, m
  <1> QED BY <1>4, <1>5 DEF Enable

LEMMA DisableMoves ==
  ASSUME SweepsInv, NEW p \in Callers, Disable(p)
  PROVE  Moves(p)
  <1> DEFINE m == Target(p)
  <1>1. calls[p] # Nobody /\ calls[p].op = "disable" /\ calls[p].pc = "next"
    BY DEF Disable, At
  <1>2. ~IsSweep(p) /\ ~At(p, "initialize") /\ ~IsHealth(calls[p])
        /\ "stop" \in Hooks(calls[p].op) /\ "stop" \in Awaited
    BY <1>1 DEF IsSweep, Sweeps, At, Hooks, Awaited, IsHealth
  <1>3. m \in Modules
    BY <1>1, TargetFacts DEF SweepsInv, Singles
  <1>4. CASE state[m] \in Stoppable /\ UNCHANGED state /\ Continue(p, "stop")
    BY <1>1, <1>2, <1>4, StillMoves DEF Disable, Awaited, Stoppable
  <1>5. CASE Continue(p, "resolved") /\ Enter(m, "disabled")
    <2> HIDE DEF m
    <2> QED BY <1>1, <1>2, <1>3, <1>5, SingleMoves DEF Disable, m
  <1> QED BY <1>4, <1>5 DEF Disable

\* Which operation waits for a hook.
LEMMA WhoWaits ==
  ASSUME SweepsInv, NEW p \in Callers, calls[p] # Nobody
  PROVE  /\ calls[p].pc = "initialize" =>
              calls[p].op \in {"initializeAll", "restart", "enable"}
         /\ calls[p].pc = "start" => calls[p].op \in {"startAll", "restart", "enable"}
         /\ calls[p].pc = "stop" =>
              calls[p].op \in {"stopAll", "disable", "restart", "enable"}
         /\ calls[p].pc = "health" => IsHealth(calls[p])
  <1>1. calls[p].op \in Sweeps \cup Singles
    BY OperationFacts DEF SweepsInv, Inv
  <1>2. calls[p].pc \in Hooks(calls[p].op) \cup {"next", "resolved", "rejected"}
    BY DEF SweepsInv, HookFits
  <1> QED BY <1>1, <1>2 DEF Sweeps, Singles, Hooks, Awaited, IsHealth

\* A hook has settled, and the operation is done with its module.
LEMMA DropMoves ==
  ASSUME SweepsInv, NEW p \in Callers, calls[p] # Nobody, calls[p].left # <<>>,
         NEW m \in Modules, m = Target(p), Drops(p), alone' = alone,
         \A k \in Modules \ {m} :
           state'[k] = state[k] /\ (k \in live' <=> k \in live),
         live' \subseteq live \cup {m},
         state'[m] = "installed" => state[m] = "installed",
         state'[m] = "loading" => state[m] = "loading" /\ ~At(p, "initialize"),
         m \in live' \ live => At(p, "start"),
         IsHealth(calls[p]) => HealthOnly,
         p \in alone /\ IsSweep(p) =>
           Done(calls[p].op, m)' /\ (Fatal(p)' => RequiredInError')
  PROVE  Moves(p)
  <1>1. Loads(p)
    BY DEF Loads
  <1>2. Starts(p)
    BY DEF Starts
  <1>3. p \in alone /\ IsSweep(p) => Sweeping(p)
    BY PassHead
  <1>4. Shape(p) /\ calls'[p].pc \in {"next", "resolved", "rejected"}
    BY DEF Drops
  <1>5. calls'[p].pc \notin Awaited
    BY <1>4 DEF Awaited
  <1> QED BY <1>1, <1>2, <1>3, <1>4, <1>5 DEF Moves, Shape

\* What a sweep remembers stays true when its head does not leave "error".
LEMMA StillInError ==
  ASSUME SweepsInv, NEW p \in alone, Drops(p), IsSweep(p), NEW m \in Modules,
         calls'[p].fatal = calls[p].fatal,
         \A k \in Modules \ {m} : state'[k] = state[k],
         state[m] = "error" => state'[m] = "error",
         Fatal(p)'
  PROVE  RequiredInError'
  <1>1. Fatal(p)
    BY DEF Fatal, Drops, Shape
  <1> QED BY <1>1 DEF SweepsInv, FatalIsError, RequiredInError

LEMMA FailMoves ==
  ASSUME SweepsInv, NEW p \in Callers, calls[p] # Nobody,
         calls[p].pc \in {"initialize", "start"},
         NEW m \in Modules, m = Target(p), Fail(p, m), alone' = alone,
         live \subseteq live', live' \subseteq live \cup {m},
         m \in live' \ live => At(p, "start")
  PROVE  Moves(p)
  <1>1. calls[p].left # <<>>
    BY TargetFacts DEF SweepsInv, Awaited
  <1>2. calls[p].op \in {"initializeAll", "startAll", "restart", "enable"}
        /\ ~IsHealth(calls[p])
    BY WhoWaits DEF IsHealth
  <1>3. state[m] # "installed" /\ state \in [Modules -> States]
    BY DEF SweepsInv, TargetsKnown, Awaited, Inv, TypeOK
  <1>4. CASE Legal(m, "error") /\ Enter(m, "error")
             /\ IF m \in Optional THEN Proceed(p) ELSE Throw(p)
    <2>1. Drops(p) /\ (m \in Optional => calls'[p].fatal = calls[p].fatal)
      BY <1>1, <1>4, ProceedShape, ThrowShape DEF SweepsInv
    <2>2. \A k \in Modules : state'[k] = IF k = m THEN "error" ELSE state[k]
      BY <1>3, <1>4 DEF Enter
    <2>3. Done(calls[p].op, m)'
      BY <1>2, <2>1, <2>2 DEF Done, Drops, Shape
    <2>4. p \in alone /\ IsSweep(p) /\ Fatal(p)' => RequiredInError'
      <3>1. CASE m \in Optional
        BY <2>1, <2>2, <3>1, StillInError
      <3>2. CASE m \notin Optional
        BY <2>2, <3>2 DEF RequiredInError
      <3> QED BY <3>1, <3>2
    <2> QED BY <1>1, <1>2, <2>1, <2>2, <2>3, <2>4, DropMoves
  <1>5. CASE ~Legal(m, "error") /\ UNCHANGED state /\ Throw(p)
    <2>1. Drops(p)
      BY <1>1, <1>5, ThrowShape DEF SweepsInv
    <2>2. state[m] = "disabled"
      BY <1>3, <1>5 DEF Legal, Allowed, States
    <2>3. ~(p \in alone /\ IsSweep(p))
      BY <2>2 DEF SweepsInv, NotDisabled, Awaited
    <2> QED BY <1>1, <1>2, <1>5, <2>1, <2>2, <2>3, DropMoves
  <1> QED BY <1>4, <1>5 DEF Fail

LEMMA InitializeSettlesMoves ==
  ASSUME SweepsInv, NEW p \in Callers, NEW ok \in BOOLEAN, InitializeSettles(p, ok)
  PROVE  Moves(p)
  <1>0. PICK m \in Modules : m = Target(p)
    BY TargetFacts DEF InitializeSettles, At, Awaited, SweepsInv
  <1>1. /\ calls[p] # Nobody /\ calls[p].pc = "initialize" /\ calls[p].left # <<>>
        /\ m \in Modules /\ live' = live /\ alone' = alone
    BY <1>0, TargetFacts DEF InitializeSettles, At, Awaited, SweepsInv
  <1>2. calls[p].op \in {"initializeAll", "restart", "enable"} /\ ~IsHealth(calls[p])
    BY <1>0, <1>1, WhoWaits DEF IsHealth
  <1>3. state[m] # "installed" /\ state \in [Modules -> States]
    BY <1>0, <1>1 DEF SweepsInv, TargetsKnown, Awaited, Inv, TypeOK
  <1>4. CASE Fail(p, m)
    <2> QED BY <1>0, <1>1, <1>4, FailMoves
  <1>5. CASE /\ Legal(m, "ready") /\ Enter(m, "ready")
             /\ IF IsSweep(p) THEN Proceed(p) ELSE Continue(p, "initialized")
    <2>1. \A k \in Modules : state'[k] = IF k = m THEN "ready" ELSE state[k]
      BY <1>3, <1>5 DEF Enter
    <2>2. state[m] # "error"
      BY <1>5 DEF Legal, Allowed
    <2>3. CASE IsSweep(p)
      <3>1. Drops(p) /\ calls'[p].fatal = calls[p].fatal
        BY <1>0, <1>1, <1>5, <2>3, ProceedShape DEF SweepsInv
      <3>2. Done(calls[p].op, m)'
        BY <1>2, <2>1, <2>3, <3>1 DEF Done, Drops, Shape, IsSweep, Sweeps
      <3>3. p \in alone /\ Fatal(p)' => RequiredInError'
        BY <1>0, <1>1, <2>1, <2>2, <2>3, <3>1, StillInError
      <3> QED BY <1>0, <1>1, <1>2, <2>1, <3>1, <3>2, <3>3, DropMoves
    <2>4. CASE ~IsSweep(p)
      <3>1. /\ Shape(p) /\ calls'[p].pc = "initialized" /\ Target(p)' = m
        BY <1>0, <1>1, <1>5, <2>4, ContinueShape DEF SweepsInv, Awaited
      <3>2. "initialized" \in Hooks(calls[p].op)
        BY <1>2, <2>4 DEF IsSweep, Sweeps, Hooks, Awaited
      <3>3. Loads(p)
        BY <1>0, <2>1 DEF Loads
      <3>4. Starts(p)
        BY <1>0, <1>1 DEF Starts
      <3> QED BY <1>0, <1>1, <1>2, <2>1, <2>4, <3>1, <3>2, <3>3, <3>4 DEF Moves, Shape
    <2> QED BY <2>3, <2>4
  <1> QED BY <1>0, <1>4, <1>5 DEF InitializeSettles

LEMMA StartSettlesMoves ==
  ASSUME SweepsInv, NEW p \in Callers, NEW ok \in BOOLEAN, StartSettles(p, ok)
  PROVE  Moves(p)
  <1>0. PICK m \in Modules : m = Target(p)
    BY TargetFacts DEF StartSettles, At, Awaited, SweepsInv
  <1>1. /\ calls[p] # Nobody /\ calls[p].pc = "start" /\ calls[p].left # <<>>
        /\ m \in Modules /\ alone' = alone
        /\ live \subseteq live' /\ live' \subseteq live \cup {m} /\ At(p, "start")
    BY <1>0, TargetFacts DEF StartSettles, At, Awaited, SweepsInv
  <1>2. calls[p].op \in {"startAll", "restart", "enable"} /\ ~IsHealth(calls[p])
    BY <1>0, <1>1, WhoWaits DEF IsHealth
  <1>3. state \in [Modules -> States]
    BY DEF SweepsInv, Inv, TypeOK
  <1>4. CASE Fail(p, m)
    <2> QED BY <1>0, <1>1, <1>4, FailMoves
  <1>5. CASE Legal(m, "running") /\ Enter(m, "running") /\ Proceed(p)
    <2>1. \A k \in Modules : state'[k] = IF k = m THEN "running" ELSE state[k]
      BY <1>3, <1>5 DEF Enter
    <2>2. state[m] # "error"
      BY <1>5 DEF Legal, Allowed
    <2>3. Drops(p) /\ calls'[p].fatal = calls[p].fatal
      BY <1>0, <1>1, <1>5, ProceedShape DEF SweepsInv
    <2>4. IsSweep(p) => Done(calls[p].op, m)'
      BY <1>2, <2>1, <2>3 DEF Done, Drops, Shape, IsSweep, Sweeps
    <2>5. p \in alone /\ IsSweep(p) /\ Fatal(p)' => RequiredInError'
      BY <1>0, <1>1, <2>1, <2>2, <2>3, StillInError
    <2> QED BY <1>0, <1>1, <1>2, <2>1, <2>3, <2>4, <2>5, DropMoves
  <1> QED BY <1>0, <1>4, <1>5 DEF StartSettles

LEMMA StopSettlesMoves ==
  ASSUME SweepsInv, NEW p \in Callers, NEW ok \in BOOLEAN, StopSettles(p, ok)
  PROVE  Moves(p)
  <1>0. PICK m \in Modules : m = Target(p)
    BY TargetFacts DEF StopSettles, At, Awaited, SweepsInv
  <1>1. /\ calls[p] # Nobody /\ calls[p].pc = "stop" /\ calls[p].left # <<>>
        /\ alone' = alone /\ live' \subseteq live
        /\ \A k \in Modules \ {m} : k \in live' <=> k \in live
        /\ ok => m \notin live'
    BY <1>0, TargetFacts DEF StopSettles, At, Awaited, SweepsInv
  <1>2. calls[p].op \in {"stopAll", "disable", "restart", "enable"}
        /\ ~IsHealth(calls[p])
    BY <1>1, WhoWaits DEF IsHealth
  <1>3. state[m] # "installed" /\ state \in [Modules -> States]
    BY <1>0, <1>1 DEF SweepsInv, TargetsKnown, Awaited, Inv, TypeOK
  <1>4. ~Fatal(p)' \/ ~(calls'[p].op = calls[p].op /\ calls[p].op = "stopAll")
    BY DEF Fatal
  <1>5. CASE calls[p].op = "disable" /\ Enter(m, "disabled") /\ Continue(p, "resolved")
    <2>1. Drops(p) /\ ~IsSweep(p)
      BY <1>1, <1>5, ContinueShape DEF SweepsInv, Drops, IsSweep, Sweeps
    <2>2. \A k \in Modules : state'[k] = IF k = m THEN "disabled" ELSE state[k]
      BY <1>3, <1>5 DEF Enter
    <2> QED BY <1>0, <1>1, <1>2, <2>1, <2>2, DropMoves
  <1>6. CASE ok /\ calls[p].op # "disable" /\ Stopped(p, m)
    <2>1. Drops(p)
      BY <1>1, <1>6, ProceedShape DEF SweepsInv, Stopped
    <2>2. \A k \in Modules : state'[k] = IF k = m THEN "ready" ELSE state[k]
      BY <1>3, <1>6 DEF Enter, Stopped
    <2>3. IsSweep(p) => Done(calls[p].op, m)' /\ ~Fatal(p)'
      BY <1>1, <1>2, <1>4, <1>6, <2>1 DEF Done, Drops, Shape, IsSweep, Sweeps
    <2> QED BY <1>0, <1>1, <1>2, <2>1, <2>2, <2>3, DropMoves
  <1>7. CASE calls[p].op # "disable" /\ StopFailed(p, m)
    <2>1. CASE ~Legal(m, "error") /\ Continue(p, "rejected") /\ UNCHANGED state
      <3>1. state[m] = "disabled"
        BY <1>3, <2>1 DEF Legal, Allowed, States
      <3>2. ~(p \in alone /\ IsSweep(p))
        BY <1>0, <1>1, <3>1 DEF SweepsInv, NotDisabled, Awaited
      <3>3. Shape(p) /\ calls'[p].pc = "rejected"
        BY <1>1, <2>1, ContinueShape DEF SweepsInv
      <3>4. Loads(p) /\ Starts(p)
        BY <1>1, <2>1 DEF Loads, Starts, At
      <3> QED BY <1>1, <1>2, <2>1, <3>2, <3>3, <3>4 DEF Moves, Shape, Awaited
    <2>2. CASE Legal(m, "error") /\ IsSweep(p) /\ Enter(m, "error") /\ Throw(p)
      <3>1. Drops(p)
        BY <1>1, <2>2, ThrowShape DEF SweepsInv
      <3>2. \A k \in Modules : state'[k] = IF k = m THEN "error" ELSE state[k]
        BY <1>3, <2>2 DEF Enter
      <3>3. Done(calls[p].op, m)' /\ ~Fatal(p)'
        BY <1>2, <1>4, <2>2, <3>1, <3>2 DEF Done, Drops, Shape, IsSweep, Sweeps
      <3> QED BY <1>0, <1>1, <1>2, <3>1, <3>2, <3>3, DropMoves
    <2>3. CASE ~IsSweep(p) /\ Enter(m, "loading") /\ Continue(p, "initialize")
      <3>1. Shape(p) /\ calls'[p].pc = "initialize" /\ Target(p)' = m
        BY <1>0, <1>1, <2>3, ContinueShape DEF SweepsInv, Awaited
      <3>2. \A k \in Modules : state'[k] = IF k = m THEN "loading" ELSE state[k]
        BY <1>3, <2>3 DEF Enter
      <3>3. Loads(p)
        BY <1>1, <3>1, <3>2 DEF Loads, At, Shape
      <3>4. Starts(p)
        BY <1>1 DEF Starts
      <3>5. "initialize" \in Hooks(calls[p].op)
        BY <1>2, <1>7, <2>3 DEF IsSweep, Sweeps, Hooks, Awaited
      <3> QED BY <1>1, <1>2, <2>3, <3>1, <3>2, <3>3, <3>4, <3>5 DEF Moves, Shape
    <2> QED BY <1>7, <2>1, <2>2, <2>3 DEF StopFailed
  <1> QED BY <1>0, <1>5, <1>6, <1>7 DEF StopSettles

\* Health checks: nobody but them is with an operation that is alone.
LEMMA HealthDropMoves ==
  ASSUME SweepsInv, NEW p \in Callers, calls[p] # Nobody, calls[p].pc = "health",
         calls[p].left # <<>>, Drops(p), UNCHANGED <<live, alone>>,
         NEW m \in Modules, m = Target(p), NEW next, Enter(m, next),
         \/ next = state[m]
         \/ state[m] \in {"loading", "ready", "error"} /\ next = "error"
         \/ {state[m], next} \subseteq {"running", "degraded"}
  PROVE  Moves(p)
  <1>1. state \in [Modules -> States]
    BY DEF SweepsInv, Inv, TypeOK
  <1>2. \A k \in Modules : state'[k] = IF k = m THEN next ELSE state[k]
    BY <1>1 DEF Enter
  <1>3. HealthOnly
    BY <1>2 DEF HealthOnly
  <1>4. p \notin alone /\ ~At(p, "initialize")
    BY WhoWaits DEF SweepsInv, Sole, At
  <1> QED BY <1>2, <1>3, <1>4, DropMoves

LEMMA HealthAnswersMoves ==
  ASSUME SweepsInv, NEW p \in Callers, NEW status, HealthAnswers(p, status)
  PROVE  Moves(p)
  <1>0. PICK m \in Modules : m = Target(p)
    BY TargetFacts DEF HealthAnswers, At, Awaited, SweepsInv
  <1>1. calls[p] # Nobody /\ calls[p].pc = "health" /\ calls[p].left # <<>>
    BY TargetFacts DEF HealthAnswers, At, Awaited, SweepsInv
  <1>2. Drops(p)
    BY <1>1, ProceedShape DEF HealthAnswers, SweepsInv
  <1>3. Enter(m, Reported(m, status)) /\ UNCHANGED <<live, alone>>
    BY <1>0 DEF HealthAnswers
  <1>4. \/ Reported(m, status) = state[m]
        \/ {state[m], Reported(m, status)} \subseteq {"running", "degraded"}
    BY DEF Reported
  <1> QED BY <1>0, <1>1, <1>2, <1>3, <1>4, HealthDropMoves

LEMMA HealthThrowsMoves ==
  ASSUME SweepsInv, NEW p \in Callers, HealthThrows(p)
  PROVE  Moves(p)
  <1>0. PICK m \in Modules : m = Target(p)
    BY TargetFacts DEF HealthThrows, At, Awaited, SweepsInv
  <1>1. calls[p] # Nobody /\ calls[p].pc = "health" /\ calls[p].left # <<>>
        /\ UNCHANGED <<live, alone>> /\ state[m] \in States
        /\ state \in [Modules -> States]
    BY <1>0, TargetFacts DEF HealthThrows, At, Awaited, SweepsInv, Inv, TypeOK
  <1>2. \/ Proceed(p)
        \/ ~IsSweep(p) /\ Continue(p, "rejected")
    BY <1>0, <1>1 DEF HealthThrows, States
  <1>3. Drops(p)
    BY <1>1, <1>2, ProceedShape, ContinueShape DEF SweepsInv, Drops
  <1>4. CASE UNCHANGED state
    <2>1. Enter(m, state[m])
      BY <1>1, <1>4 DEF Enter
    <2> QED BY <1>0, <1>1, <1>3, <2>1, HealthDropMoves
  <1>5. CASE state[m] \in {"running", "degraded"} /\ Enter(m, "degraded")
    BY <1>0, <1>1, <1>3, <1>5, HealthDropMoves
  <1>6. CASE state[m] \in {"loading", "ready", "error"} /\ Enter(m, "error")
    BY <1>0, <1>1, <1>3, <1>6, HealthDropMoves
  <1> QED BY <1>0, <1>1, <1>4, <1>5, <1>6 DEF HealthThrows, States

\* A sweep that is alone need not do anything for a module it passes over.
LEMMA PassedOver ==
  ASSUME SweepsInv, NEW p \in alone, p \in Callers, IsSweep(p), At(p, "next"),
         NEW m \in Modules, state[m] \notin Treated(calls[p].op)
  PROVE  Done(calls[p].op, m)
  <1>1. state[m] \in States
    BY DEF SweepsInv, Inv, TypeOK
  <1>2. state[m] # "loading"
    <2> SUFFICES ASSUME state[m] = "loading" PROVE FALSE
      OBVIOUS
    <2>1. PICK q \in Callers : At(q, "initialize")
      BY DEF SweepsInv, LoadingHasCall
    <2>2. q # p /\ calls[q] # Nobody /\ calls[q].pc = "initialize"
      BY <2>1 DEF At
    <2>3. IsHealth(calls[q])
      BY <2>2 DEF SweepsInv, Sole
    <2> QED BY <2>2, <2>3, WhoWaits DEF IsHealth
  <1>3. state[m] = "installed" => m \notin live
    BY DEF SweepsInv, InstalledIdle
  <1> QED BY <1>1, <1>2, <1>3 DEF Done, Treated, Stoppable, States, IsSweep, Sweeps

LEMMA SweepNextMoves ==
  ASSUME SweepsInv, NEW p \in Callers, SweepNext(p)
  PROVE  Moves(p)
  <1>1. /\ calls[p] # Nobody /\ IsSweep(p) /\ At(p, "next") /\ calls[p].pc = "next"
        /\ calls[p] \in Operation /\ calls[p].left \in Seq(Modules)
        /\ UNCHANGED <<live, alone>> /\ state \in [Modules -> States]
        /\ calls \in [Callers -> Operation \cup {Nobody}]
    BY OperationFacts DEF SweepNext, At, SweepsInv, Inv, TypeOK
  <1>2. Starts(p)
    BY <1>1 DEF Starts
  <1>3. p \in alone => ~IsHealth(calls[p])
    BY DEF SweepsInv, Sole
  <1>4. CASE /\ \A j \in DOMAIN calls[p].left :
                  state[calls[p].left[j]] \notin Treated(calls[p].op)
             /\ Continue(p, IF calls[p].fatal THEN "rejected" ELSE "resolved")
             /\ UNCHANGED state
    <2> DEFINE pc == IF calls[p].fatal THEN "rejected" ELSE "resolved"
    <2>1. /\ Shape(p) /\ calls'[p].pc = pc /\ calls'[p].fatal = calls[p].fatal
      BY <1>1, <1>4, ContinueShape DEF SweepsInv
    <2>2. pc \notin Awaited
      BY DEF Awaited
    <2>3. Loads(p) /\ HealthOnly
      BY <1>1, <1>4 DEF Loads, HealthOnly, At
    <2>4. ASSUME p \in alone
          PROVE  Sweeping(p)
      <3>1. ASSUME NEW m \in Modules, Done(calls[p].op, m) \/ Ahead(p, m)
            PROVE  Done(calls[p].op, m)'
        <4>1. Done(calls[p].op, m)
          BY <1>1, <1>4, <2>4, <3>1, PassedOver DEF Ahead
        <4> QED BY <1>1, <1>4, <2>1, <4>1 DEF Done, Shape
      <3>2. ASSUME Fatal(p)' PROVE RequiredInError'
        <4>1. Fatal(p)
          BY <2>1, <3>2 DEF Fatal, Shape
        <4>2. RequiredInError
          BY <2>4, <4>1 DEF SweepsInv, FatalIsError
        <4> QED BY <1>4, <4>2 DEF RequiredInError
      <3> QED BY <2>1, <2>2, <3>1, <3>2 DEF Sweeping
    <2> QED BY <1>1, <1>2, <1>4, <2>1, <2>2, <2>3, <2>4 DEF Moves, Shape
  <1>5. CASE \E i \in DOMAIN calls[p].left :
          /\ state[calls[p].left[i]] \in Treated(calls[p].op)
          /\ \A j \in DOMAIN calls[p].left :
               j < i => state[calls[p].left[j]] \notin Treated(calls[p].op)
          /\ calls' = [calls EXCEPT
                ![p].left = SubSeq(@, i, Len(@)), ![p].pc = FirstHook(calls[p].op)]
          /\ IF calls[p].op = "initializeAll"
             THEN Enter(calls[p].left[i], "loading") ELSE UNCHANGED state
    <2>1. PICK i \in DOMAIN calls[p].left :
            /\ state[calls[p].left[i]] \in Treated(calls[p].op)
            /\ \A j \in DOMAIN calls[p].left :
                 j < i => state[calls[p].left[j]] \notin Treated(calls[p].op)
            /\ calls' = [calls EXCEPT
                  ![p].left = SubSeq(@, i, Len(@)), ![p].pc = FirstHook(calls[p].op)]
            /\ IF calls[p].op = "initializeAll"
               THEN Enter(calls[p].left[i], "loading") ELSE UNCHANGED state
      BY <1>5
    <2>2. PICK m \in Modules : m = calls[p].left[i]
      BY <1>1
    <2> DEFINE rest == SubSeq(calls[p].left, i, Len(calls[p].left))
    <2>3. /\ rest \in Seq(Modules)
          /\ rest # <<>> /\ Head(rest) = m
          /\ \A j \in DOMAIN calls[p].left :
               j < i \/ \E k \in DOMAIN rest : rest[k] = calls[p].left[j]
      BY <1>1, <2>2, RestFacts
    <2>4. /\ FirstHook(calls[p].op) \in Awaited
          /\ FirstHook(calls[p].op) \in Hooks(calls[p].op)
          /\ FirstHook(calls[p].op) = "initialize" <=> calls[p].op = "initializeAll"
      BY <1>1 DEF IsSweep, Sweeps, FirstHook, Awaited, Hooks
    <2>5. /\ calls'[p] = [calls[p] EXCEPT !.left = rest, !.pc = FirstHook(calls[p].op)]
          /\ \A q \in Callers \ {p} : calls'[q] = calls[q]
      BY <1>1, <2>1
    <2> HIDE DEF rest
    <2>6. /\ calls'[p] \in Operation /\ calls'[p].op = calls[p].op
          /\ calls'[p].pc = FirstHook(calls[p].op) /\ calls'[p].left = rest
          /\ calls'[p].fatal = calls[p].fatal
      BY <1>1, <2>3, <2>4, <2>5 DEF Operation
    <2>7. Shape(p) /\ Target(p)' = m
      BY <1>1, <2>3, <2>5, <2>6, NobodyAssumption DEF Shape, Target
    <2>8. \A k \in Modules :
            state'[k] = IF calls[p].op = "initializeAll" /\ k = m
                        THEN "loading" ELSE state[k]
      BY <1>1, <2>1, <2>2 DEF Enter
    <2>9. Loads(p)
      BY <1>1, <2>4, <2>6, <2>7, <2>8 DEF Loads, At, Shape
    <2>10. calls[p].op # "healthAll" =>
             state'[m] # "installed" /\ state'[m] # "disabled"
      BY <1>1, <2>1, <2>2, <2>8 DEF Treated, IsSweep, Sweeps, Stoppable
    <2>11. FirstHook(calls[p].op) # "health" => calls[p].op # "healthAll"
      BY DEF FirstHook
    <2>12. IsHealth(calls[p]) => HealthOnly
      BY <1>1, <2>8 DEF IsHealth, HealthOnly
    <2>13. ASSUME p \in alone
           PROVE  Sweeping(p)
      <3>1. calls[p].op # "healthAll"
        BY <1>3, <2>13 DEF IsHealth
      <3>2. ASSUME NEW k \in Modules, Done(calls[p].op, k) \/ Ahead(p, k)
            PROVE  Done(calls[p].op, k)' \/ Ahead(p, k)'
        <4>1. CASE \E j \in DOMAIN rest : rest[j] = k
          BY <2>4, <2>6, <4>1 DEF Ahead, Awaited
        <4>2. CASE ~\E j \in DOMAIN rest : rest[j] = k
          <5>1. k # m
            BY <2>3, <4>2
          <5>2. Done(calls[p].op, k)
            <6>1. CASE Ahead(p, k)
              <7>1. PICK j \in DOMAIN calls[p].left : calls[p].left[j] = k
                BY <6>1 DEF Ahead
              <7>2. state[k] \notin Treated(calls[p].op)
                BY <2>1, <2>3, <4>2, <7>1
              <7> QED BY <1>1, <2>13, <7>2, PassedOver
            <6> QED BY <3>2, <6>1
          <5>3. state'[k] = state[k] /\ live' = live
            BY <1>1, <2>8, <5>1
          <5> QED BY <2>6, <5>2, <5>3 DEF Done
        <4> QED BY <4>1, <4>2
      <3>3. ASSUME Fatal(p)' PROVE RequiredInError'
        <4>1. Fatal(p)
          BY <2>4, <2>6, <3>3 DEF Fatal, Awaited
        <4>2. RequiredInError
          BY <2>13, <4>1 DEF SweepsInv, FatalIsError
        <4>3. PICK e \in Modules \ Optional : state[e] = "error"
          BY <4>2 DEF RequiredInError
        <4>4. state'[e] = "error"
          BY <2>1, <2>2, <2>8, <4>3 DEF Treated
        <4> QED BY <4>4 DEF RequiredInError
      <3> QED BY <2>7, <2>10, <3>1, <3>2, <3>3 DEF Sweeping
    <2> QED BY <1>1, <1>2, <2>4, <2>6, <2>7, <2>8, <2>9, <2>10, <2>11, <2>12,
               <2>13 DEF Moves, Shape
  <1>6. Len(calls[p].left) \in Nat /\ DOMAIN calls[p].left = 1..Len(calls[p].left)
    BY <1>1
  <1> DEFINE due == {i \in DOMAIN calls[p].left :
                       state[calls[p].left[i]] \in Treated(calls[p].op)}
  <1>7. CASE /\ due = {}
             /\ Continue(p, IF calls[p].fatal THEN "rejected" ELSE "resolved")
             /\ UNCHANGED state
    BY <1>4, <1>7
  <1>8. ASSUME NEW i \in due,
               /\ \A j \in due : i <= j
               /\ calls' = [calls EXCEPT
                     ![p].left = SubSeq(@, i, Len(@)), ![p].pc = FirstHook(calls[p].op)]
               /\ IF calls[p].op = "initializeAll"
                  THEN Enter(calls[p].left[i], "loading") ELSE UNCHANGED state
        PROVE  Moves(p)
    <2>1. \A j \in DOMAIN calls[p].left :
            j < i => state[calls[p].left[j]] \notin Treated(calls[p].op)
      BY <1>6, <1>8
    <2> QED BY <1>5, <1>8, <2>1
  <1> QED BY <1>7, <1>8 DEF SweepNext

\* An operation begins.
LEMMA BeginSweeps ==
  ASSUME SweepsInv, Inv', NEW p \in Callers, NEW operation \in Operations,
         Begin(p, operation)
  PROVE  SweepsInv'
  <1>1. /\ operation \in Operation /\ operation # Nobody /\ calls[p] = Nobody
        /\ calls'[p] = operation /\ UNCHANGED <<state, live>>
        /\ \A q \in Callers \ {p} : calls'[q] = calls[q]
        /\ operation.pc = "next" /\ operation.fatal = FALSE
    <2>1. operation \in Operation /\ operation # Nobody
      BY OperationsFacts, NobodyAssumption
    <2>2. operation.pc = "next" /\ operation.fatal = FALSE
      BY DEF Operations
    <2> QED BY <2>1, <2>2 DEF Begin, SweepsInv, Inv, TypeOK
  <1>2. \A q \in alone : q \in Callers /\ q # p /\ calls'[q] = calls[q]
                         /\ calls[q] # Nobody /\ ~IsHealth(calls[q])
    BY <1>1 DEF SweepsInv, Sole, Inv, TypeOK
  <1>3. \A q \in alone' : q \in alone \/ q = p
    BY DEF Begin
  <1>4. HookFits'
    BY <1>1 DEF SweepsInv, HookFits
  <1>5. LoadingHasCall' /\ TargetsKnown' /\ InstalledIdle'
    BY <1>1 DEF SweepsInv, LoadingHasCall, TargetsKnown, InstalledIdle, At, Target,
                Awaited
  <1>6. Sole'
    <2>1. CASE IsHealth(operation)
      <3>1. alone' = alone
        BY <2>1 DEF Begin
      <3> QED BY <1>1, <1>2, <2>1, <3>1 DEF SweepsInv, Sole, IsHealth
    <2>2. CASE ~IsHealth(operation)
          /\ \A q \in Callers : calls[q] # Nobody => IsHealth(calls[q])
      <3>1. alone' = {p}
        BY <1>2, <2>2 DEF Begin
      <3> QED BY <1>1, <2>2, <3>1 DEF Sole, IsHealth
    <2>3. CASE alone' = {}
      BY <2>3 DEF Sole
    <2> QED BY <2>1, <2>2, <2>3 DEF Begin
  <1>7. NotDisabled' /\ FatalIsError'
    BY <1>1, <1>2, <1>3 DEF SweepsInv, NotDisabled, FatalIsError, Fatal,
       RequiredInError, IsSweep, Target, Awaited
  <1>8. SweepInv'
    <2> SUFFICES ASSUME NEW q \in alone', IsSweep(q)', NEW i \in DOMAIN Order
                 PROVE  (Done(calls[q].op, Order[i]) \/ Ahead(q, Order[i]))'
      BY DEF SweepInv
    <2>1. CASE q \in alone
      <3>1. calls'[q] = calls[q]
        BY <1>2, <2>1
      <3>2. IsSweep(q)
        BY <3>1 DEF IsSweep
      <3>3. Done(calls[q].op, Order[i]) \/ Ahead(q, Order[i])
        BY <2>1, <3>2 DEF SweepsInv, SweepInv
      <3> QED BY <1>1, <3>1, <3>3 DEF Done, Ahead
    <2>2. CASE q = p
      <3>1. operation.op \in Sweeps
        BY <1>1, <2>2 DEF IsSweep
      <3>2. \E j \in DOMAIN operation.left : operation.left[j] = Order[i]
        <4>1. CASE operation.left = Order
          BY <4>1
        <4>2. CASE operation.left = [j \in DOMAIN Order |-> Order[Len(Order) + 1 - j]]
          <5>1. Len(Order) \in Nat /\ DOMAIN Order = 1..Len(Order)
            BY ModulesAssumption
          <5>2. Len(Order) + 1 - i \in DOMAIN Order
                /\ Len(Order) + 1 - (Len(Order) + 1 - i) = i
            BY <5>1
          <5> QED BY <4>2, <5>2
        <4>3. \/ operation.left = Order
              \/ operation.left = [j \in DOMAIN Order |-> Order[Len(Order) + 1 - j]]
          BY <3>1 DEF Operations, Sweeps, Singles
        <4> QED BY <4>1, <4>2, <4>3
      <3> QED BY <1>1, <2>2, <3>2 DEF Ahead
    <2> QED BY <1>3, <2>1, <2>2
  <1> QED BY <1>4, <1>5, <1>6, <1>7, <1>8 DEF SweepsInv

\* An operation has settled and is forgotten.
LEMMA ReturnSweeps ==
  ASSUME SweepsInv, Inv', NEW p \in Callers, Return(p)
  PROVE  SweepsInv'
  <1>1. /\ calls'[p] = Nobody /\ UNCHANGED <<state, live>>
        /\ alone' = alone \ {p} /\ alone \subseteq Callers
        /\ \A q \in Callers \ {p} : calls'[q] = calls[q]
        /\ calls[p].pc \in {"resolved", "rejected"}
    BY DEF Return, At, SweepsInv, Inv, TypeOK
  <1>2. HookFits' /\ InstalledIdle' /\ TargetsKnown' /\ Sole'
    BY <1>1 DEF SweepsInv, HookFits, InstalledIdle, TargetsKnown, Sole, Target
  <1>3. LoadingHasCall'
    BY <1>1 DEF SweepsInv, LoadingHasCall, At, Target
  <1>4. NotDisabled' /\ FatalIsError'
    BY <1>1 DEF SweepsInv, NotDisabled, FatalIsError, Fatal, RequiredInError,
                IsSweep, Target
  <1>5. SweepInv'
    BY <1>1 DEF SweepsInv, SweepInv, IsSweep, Done, Ahead
  <1> QED BY <1>2, <1>3, <1>4, <1>5 DEF SweepsInv

LEMMA InitSweeps == Init => SweepsInv
  BY InitInv DEF Init, SweepsInv, HookFits, LoadingHasCall, TargetsKnown,
     InstalledIdle, Sole, NotDisabled, SweepInv, FatalIsError

\* A step keeps what is known of the sweeps.
LEMMA StepSweeps ==
  ASSUME SweepsInv, [Next]_vars
  PROVE  SweepsInv'
  <1>1. Inv'
    BY StepGood DEF SweepsInv, Good
  <1>2. CASE Next
    <2>1. PICK p \in Callers :
            \/ \E operation \in Operations : Begin(p, operation)
            \/ SweepNext(p) \/ Restart(p) \/ Enable(p) \/ Disable(p) \/ Health(p)
            \/ StartNext(p)
            \/ \E ok \in BOOLEAN : \/ InitializeSettles(p, ok)
                                   \/ StartSettles(p, ok) \/ StopSettles(p, ok)
            \/ \E status \in {"healthy", "degraded", "error"} :
                 HealthAnswers(p, status)
            \/ HealthThrows(p)
            \/ Return(p)
      BY <1>2 DEF Next
    <2>2. CASE \E operation \in Operations : Begin(p, operation)
      BY <1>1, <2>2, BeginSweeps
    <2>3. CASE Return(p)
      BY <1>1, <2>3, ReturnSweeps
    <2>4. CASE Moves(p)
      BY <1>1, <2>4, MovesKeep
    <2> QED BY <2>1, <2>2, <2>3, <2>4, SweepNextMoves, RestartMoves, EnableMoves,
               DisableMoves, HealthMoves, StartNextMoves, InitializeSettlesMoves,
               StartSettlesMoves, StopSettlesMoves, HealthAnswersMoves,
               HealthThrowsMoves
  <1>3. CASE UNCHANGED vars
    BY <1>1, <1>3 DEF vars, SweepsInv, HookFits, LoadingHasCall, TargetsKnown,
       InstalledIdle, Sole, NotDisabled, SweepInv, FatalIsError, Fatal,
       RequiredInError, IsSweep, Done, Ahead, At, Target
  <1> QED BY <1>2, <1>3

\* A sweep that nobody but health checks has disturbed has reached every
\* module when it settles, also behind one that failed; and initializeAll and
\* startAll reject only for a module that is not optional.
THEOREM SweepsReachAllHolds == Spec => []SweepsReachAll
  <1>1. SweepsInv => SweepsReachAll
    <2> SUFFICES ASSUME SweepsInv, NEW p \in alone
                 PROVE  /\ \A i \in DOMAIN Order :
                             /\ Settled(p, "initializeAll") =>
                                  state[Order[i]] \notin {"installed", "loading"}
                             /\ Settled(p, "startAll") => state[Order[i]] # "ready"
                             /\ Settled(p, "stopAll") /\ Order[i] \in live =>
                                  state[Order[i]] \in {"error", "disabled"}
                        /\ At(p, "rejected")
                           /\ calls[p].op \in {"initializeAll", "startAll"} =>
                             \E m \in Modules \ Optional : state[m] = "error"
      BY DEF SweepsReachAll
    <2>1. ASSUME NEW i \in DOMAIN Order, NEW op \in Sweeps, Settled(p, op)
          PROVE  Done(op, Order[i])
      BY <2>1 DEF Settled, SweepsInv, SweepInv, IsSweep, Ahead
    <2>2. {"initializeAll", "startAll", "stopAll"} \subseteq Sweeps
      BY DEF Sweeps
    <2>3. \A i \in DOMAIN Order :
            /\ Settled(p, "initializeAll") =>
                 state[Order[i]] \notin {"installed", "loading"}
            /\ Settled(p, "startAll") => state[Order[i]] # "ready"
            /\ Settled(p, "stopAll") /\ Order[i] \in live =>
                 state[Order[i]] \in {"error", "disabled"}
      BY <2>1, <2>2 DEF Done
    <2>4. At(p, "rejected") /\ calls[p].op \in {"initializeAll", "startAll"} =>
            \E m \in Modules \ Optional : state[m] = "error"
      BY DEF SweepsInv, FatalIsError, Fatal, RequiredInError, At
    <2> QED BY <2>3, <2>4
  <1>2. SweepsInv /\ [Next]_vars => SweepsInv'
    BY StepSweeps
  <1> QED BY InitSweeps, <1>1, <1>2, PTL DEF Spec
=============================================================================
